---- MODULE Spec2Model ----
(***************************************************************************)
(* Model of the mailbox provisioning engine of the temporary-mail backend: *)
(* the upstream client (mailTmRequest), the domain catalog cache           *)
(* (getAvailableDomains), the rotation selector (pickMailTmDomain and the  *)
(* trial loop of provisionMailboxWithMailTm) and the shared rotation       *)
(* cursor domainRotationIndex.                                             *)
(*                                                                         *)
(* Every await of the source is a point where another in-flight call may   *)
(* run; the code between two awaits is one atomic action.  mailTmRequest   *)
(* touches no shared state, so one logical request (with its retries) is   *)
(* resolved in one step from the answers the upstream gives to its         *)
(* successive HTTP attempts.                                               *)
(***************************************************************************)
EXTENDS Integers, Sequences, FiniteSets, TLC

\* ------------------------------------------------------------------------
\* JavaScript values that are not numbers, strings or objects
\* ------------------------------------------------------------------------
Undefined == "undefined"
Null == "null"
\* NaN and an absent error.status, as integers no index or HTTP status equals
NaN == -1
NoStatus == 0

\* ------------------------------------------------------------------------
\* Bounds of the model
\* ------------------------------------------------------------------------
\* the clock advances MaxTicks times, TickMs at a time
MaxTicks == 3
\* longest list handed to the reordering on its own
MaxListLen == 3
\* length of the long catalog (longer than the trial cap of 15)
BigCatalogLen == 17

TickMs == 5 * 60 * 1000

\* the calls that may be in flight together, and the one of the sequential runs
Procs == {"c1", "c2"}
Single == {"c1"}

\* ------------------------------------------------------------------------
\* Program constants
\* ------------------------------------------------------------------------
DOMAIN_CACHE_TTL_MS == 10 * 60 * 1000
maxRetries == 3
MaxTrialDomains == 15
DomainAttempts == 2
DefaultTokenSeconds == 3600

DEFAULT_PREFERRED_DOMAINS ==
  << "comfythings.com", "elyxstore.com", "ketoblisslabs.com", "ekii.de",
     "asia-mail.com", "doer.sbs", "badfist.com", "besenica.com", "mail.tm" >>

\* the find-and-splice chain of provisionMailboxWithMailTm, in source order
PriorityMoves ==
  << "comfythings.com", "badfist.com", "besenica.com", "asia-mail.com",
     "doer.sbs", "ekii.de", "ketoblisslabs.com", "elyxstore.com", "mail.tm" >>

\* ------------------------------------------------------------------------
\* Strings: String.prototype.toLowerCase and localeCompare on the domain
\* names the model's catalogs use
\* ------------------------------------------------------------------------
BigName(i) == "n" \o (IF i < 10 THEN "0" ELSE "") \o ToString(i) \o ".test"

BigNames == [i \in 1..BigCatalogLen |-> BigName(i)]

toLowerCase(s) ==
  CASE s = "Mail.TM" -> "mail.tm"
    [] s = "EKII.DE" -> "ekii.de"
    [] s = "Zeta.org" -> "zeta.org"
    [] OTHER -> s

\* the lower-case names in collation order
Collation ==
  << "alpha.net", "asia-mail.com", "badfist.com", "besenica.com", "beta.net",
     "comfythings.com", "doer.sbs", "ekii.de", "elyxstore.com",
     "ketoblisslabs.com", "mail.tm" >> \o BigNames \o << "zeta.org" >>

RECURSIVE IndexFrom(_, _, _)
IndexFrom(seq, x, i) ==
  IF i > Len(seq) THEN -1
  ELSE IF seq[i] = x THEN i - 1
  ELSE IndexFrom(seq, x, i + 1)

\* Array.prototype.indexOf (0-based, -1 when absent)
indexOf(seq, x) == IndexFrom(seq, x, 1)

\* Array.prototype.includes
includes(seq, x) == indexOf(seq, x) >= 0

localeCompare(a, b) ==
  LET ra == indexOf(Collation, a)
      rb == indexOf(Collation, b)
  IN  IF ra < rb THEN -1 ELSE IF ra > rb THEN 1 ELSE 0

\* the comparator (a, b) => a.toLowerCase().localeCompare(b.toLowerCase())
compareDomains(a, b) == localeCompare(toLowerCase(a), toLowerCase(b))

RECURSIVE InsertStable(_, _)
InsertStable(sorted, x) ==
  IF sorted = <<>> THEN <<x>>
  ELSE IF compareDomains(Head(sorted), x) <= 0
       THEN <<Head(sorted)>> \o InsertStable(Tail(sorted), x)
       ELSE <<x>> \o sorted

RECURSIVE sortDomains(_)
\* Array.prototype.sort with compareDomains (a stable sort)
sortDomains(list) ==
  IF list = <<>> THEN <<>>
  ELSE InsertStable(sortDomains(SubSeq(list, 1, Len(list) - 1)), list[Len(list)])

RECURSIVE FindIndexFrom(_, _, _)
FindIndexFrom(list, name, i) ==
  IF i > Len(list) THEN -1
  ELSE IF toLowerCase(list[i]) = name THEN i - 1
  ELSE FindIndexFrom(list, name, i + 1)

\* domainsToTry.findIndex((d) => d.toLowerCase() === name)
findIndex(list, name) == FindIndexFrom(list, name, 1)

\* splice(index, 1) followed by unshift of the removed element
MoveToFront(list, name) ==
  LET i == findIndex(list, name)
  IN  IF i >= 0
      THEN <<list[i + 1]>> \o SubSeq(list, 1, i) \o SubSeq(list, i + 2, Len(list))
      ELSE list

RECURSIVE ApplyMoves(_, _)
ApplyMoves(list, moves) ==
  IF moves = <<>> THEN list
  ELSE ApplyMoves(MoveToFront(list, Head(moves)), Tail(moves))

\* the ordering of domainsToTry: alphabetical sort, then the priority chain
reorderDomains(list) == ApplyMoves(sortDomains(list), PriorityMoves)

\* JavaScript's a % n on non-negative integers (NaN when n is 0 or a is NaN)
JsMod(a, n) == IF n = 0 \/ a = NaN THEN NaN ELSE a % n

\* arr[i] with a 0-based index (undefined outside the array or for NaN)
At(arr, i) == IF i \in 0..(Len(arr) - 1) THEN arr[i + 1] ELSE Undefined

Min(a, b) == IF a < b THEN a ELSE b


\* ------------------------------------------------------------------------
\* Upstream answers.  One HTTP attempt is answered by a network failure
\* (fetch rejects: AbortError or TypeError) or by a status and a body; data
\* is the body parsed as JSON (json = FALSE: data is null; expires_in = 0:
\* the number is absent).
\* ------------------------------------------------------------------------
NoData ==
  [json |-> FALSE, detail |-> "", hasMember |-> FALSE, member |-> <<>>,
   id |-> Undefined, token |-> Undefined, refresh_token |-> Undefined,
   expires_in |-> 0]

Json(detail) == [NoData EXCEPT !.json = TRUE, !.detail = detail]

Http(status, data) == [net |-> FALSE, status |-> status, data |-> data]

NetFailure == [net |-> TRUE, status |-> NoStatus, data |-> NoData]

\* String.prototype.includes on the error details the upstream sends
detailIncludes(detail, word) ==
  CASE word = "rate" -> detail \in {"rate limit exceeded", "too many accounts, rate exceeded"}
    [] word = "limit" -> detail \in {"rate limit exceeded", "Domain limit reached"}
    [] OTHER -> FALSE

\* the answers one HTTP attempt of POST /accounts can get
AccountAnswers ==
  { Http(201, [Json("") EXCEPT !.id = "acc"]),
    Http(201, NoData),
    Http(400, Json("bad request")),
    Http(409, Json("address: already used")),
    Http(422, Json("address: already used")),
    Http(422, Json("rate limit exceeded")),
    Http(429, Json("Too Many Requests")),
    Http(404, NoData),
    Http(503, NoData),
    NetFailure }

\* the answers one HTTP attempt of POST /token can get
TokenAnswers ==
  { Http(200, [Json("") EXCEPT !.token = "jwt"]),
    Http(401, Json("Invalid credentials.")),
    Http(429, Json("Too Many Requests")),
    Http(500, Json("Internal Server Error")),
    NetFailure }

\* entries of hydra:member: a bare string, an object, or null
StrEntry(s) ==
  [t |-> "string", s |-> s, domain |-> Undefined, name |-> Undefined,
   address |-> Undefined]

ObjEntry(d) ==
  [t |-> "object", s |-> Undefined, domain |-> d, name |-> Undefined,
   address |-> Undefined]

NamedEntry(n) ==
  [t |-> "object", s |-> Undefined, domain |-> Undefined, name |-> n,
   address |-> Undefined]

NullEntry ==
  [t |-> "null", s |-> Undefined, domain |-> Undefined, name |-> Undefined,
   address |-> Undefined]

\* catalogs of a few domains
SmallCatalogs ==
  { << ObjEntry("zeta.org"), ObjEntry("doer.sbs"), ObjEntry("Mail.TM"),
       StrEntry("ekii.de") >>,
    << ObjEntry("mail.tm"), NullEntry, NamedEntry("alpha.net"),
       ObjEntry("Mail.TM") >>,
    << StrEntry("beta.net"), ObjEntry("alpha.net") >>,
    << ObjEntry(Undefined) >>,
    << >> }

\* a catalog longer than the trial cap, none of its domains preferred
BigCatalog == [i \in 1..BigCatalogLen |-> ObjEntry(BigNames[i])]

Members(member) == [Json("") EXCEPT !.hasMember = TRUE, !.member = member]

\* the answers one HTTP attempt of GET /domains can get, over a set of catalogs
DomainAnswers(catalogs) ==
  { Http(200, Members(c)) : c \in catalogs }
    \cup { Http(200, Json("")), Http(200, NoData), Http(404, NoData),
           Http(500, Json("Internal Server Error")), NetFailure }

\* what the upstream answers to the successive attempts of one request: k
\* retriable failures (none, or as many as there are retries), then one more
\* answer, repeated
Script(pre, k, last) == [i \in 1..(maxRetries + 1) |-> IF i <= k THEN pre ELSE last]

Scripts(answers) ==
  { Script(pre, k, last) :
      pre \in {Http(503, NoData), NetFailure}, k \in {0, maxRetries},
      last \in answers }

\* the same without failed attempts before the answer
Direct(answers) == { Script(NetFailure, 0, last) : last \in answers }

AccountScripts == Scripts(AccountAnswers)
TokenScripts == Scripts(TokenAnswers)
DomainScripts == Scripts(DomainAnswers(SmallCatalogs))

\* the answers of the runs with calls in flight together
ConcCatalogs ==
  { << ObjEntry("zeta.org"), ObjEntry("doer.sbs"), ObjEntry("Mail.TM"),
       StrEntry("ekii.de") >>,
    << StrEntry("beta.net"), ObjEntry("alpha.net") >>,
    << >> }

ConcDomainScripts ==
  Direct({ Http(200, Members(c)) : c \in ConcCatalogs } \cup {NetFailure})

ConcAccountScripts ==
  Direct({ Http(201, [Json("") EXCEPT !.id = "acc"]),
           Http(429, Json("Too Many Requests")) })

ConcTokenScripts ==
  Direct({ Http(200, [Json("") EXCEPT !.token = "jwt"]),
           Http(500, Json("Internal Server Error")) })

\* the answers of the runs over the long catalog
BigDomainScripts ==
  Direct({ Http(200, Members(c)) :
             c \in {BigCatalog, << StrEntry("beta.net"), ObjEntry("alpha.net") >>, << >>} })

BigAccountScripts ==
  Direct({ Http(201, [Json("") EXCEPT !.id = "acc"]),
           Http(429, Json("Too Many Requests")),
           Http(409, Json("address: already used")),
           Http(503, NoData) })

BigTokenScripts ==
  Direct({ Http(200, [Json("") EXCEPT !.token = "jwt"]), NetFailure })

\* ------------------------------------------------------------------------
\* Upstream client
\* ------------------------------------------------------------------------
\* mutant: every error status is retried
retryOnStatusAnyError(status, retries) == status >= 400 /\ retries < maxRetries

\* the response is retried: a status >= 500 while retries < maxRetries
retryOnStatus(status, retries) == status >= 500 /\ retries < maxRetries

\* the rejection is retried: a network or timeout error while retries < maxRetries
retryOnNetwork(retries) == retries < maxRetries

RECURSIVE Request(_, _)
Request(script, retries) ==
  LET r == script[retries + 1]
  IN  IF r.net
      THEN IF retryOnNetwork(retries)
           THEN Request(script, retries + 1)
           ELSE [ok |-> FALSE, status |-> NoStatus, data |-> NoData,
                 name |-> "TypeError", retries |-> retries]
      ELSE IF r.status \in 200..299
           THEN [ok |-> TRUE, status |-> r.status, data |-> r.data,
                 name |-> "", retries |-> retries]
           ELSE IF retryOnStatus(r.status, retries)
                THEN Request(script, retries + 1)
                ELSE [ok |-> FALSE, status |-> r.status, data |-> r.data,
                      name |-> "Error", retries |-> retries]

\* one logical request: what it resolves or rejects with
mailTmRequest(script) == Request(script, 0)

\* the error object a rejected request throws
errorOf(res) == [status |-> res.status, data |-> res.data, name |-> res.name]

\* a TypeError thrown by the engine's own code (reading a property of null)
TypeError == [status |-> NoStatus, data |-> NoData, name |-> "TypeError"]

\* new Error(message) without a status
PlainError(message) ==
  [status |-> NoStatus, data |-> [NoData EXCEPT !.detail = message], name |-> "Error"]

\* ------------------------------------------------------------------------
\* The error of a failed response, and the error handler of the routes
\* ------------------------------------------------------------------------
ServiceError == "Mailbox provider service error. Please try again in a few moments."

Unavailable == "Mailbox provider is temporarily unavailable. Please try again in a few seconds."

\* the statuses of the failed responses
FailureStatuses == {400, 404, 422, 429, 500, 502, 503}

\* `mail.tm request failed (${response.status})`
requestFailed(status) == "mail.tm request failed (" \o ToString(status) \o ")"

\* a response body: hasText: text is not empty; json: data, the text parsed
\* as JSON, is an object (FALSE: data is null); detail, message, code:
\* data.detail, data.message, data.code ("" when absent); codeField: text
\* matches /Code:\s*(\w+)/i; notFound: text matches /NOT_FOUND/i; pageGone:
\* the text in lower case includes "the page could not be found"
NoBody ==
  [hasText |-> FALSE, json |-> FALSE, detail |-> "", message |-> "", code |-> "",
   codeField |-> FALSE, notFound |-> FALSE, pageGone |-> FALSE]

TextBody == [NoBody EXCEPT !.hasText = TRUE]

JsonBody == [NoBody EXCEPT !.hasText = TRUE, !.json = TRUE]

\* the body shapes: empty; plain text (or the JSON literal null); the
\* provider's structured text "404: NOT_FOUND / Code: NOT_FOUND / ID: ...";
\* text with a Code field; an HTML page; JSON with detail, with message, with
\* neither, with code NOT_FOUND, with details that name an ID or a Code or
\* quote the HTML page
ErrorBodies ==
  { NoBody,
    TextBody,
    [TextBody EXCEPT !.codeField = TRUE, !.notFound = TRUE],
    [TextBody EXCEPT !.codeField = TRUE],
    [TextBody EXCEPT !.pageGone = TRUE],
    [JsonBody EXCEPT !.detail = "Internal Server Error"],
    [JsonBody EXCEPT !.message = "upstream down"],
    [JsonBody EXCEPT !.detail = "Internal Server Error", !.message = "upstream down"],
    JsonBody,
    [JsonBody EXCEPT !.code = "NOT_FOUND", !.notFound = TRUE],
    [JsonBody EXCEPT !.detail = "Error ID: 7f3a"],
    [JsonBody EXCEPT !.detail = "Code: E_LIMIT", !.codeField = TRUE],
    [JsonBody EXCEPT !.detail = "The page could not be found", !.pageGone = TRUE] }

\* mutant: a JSON body's detail is kept whatever the status
messageFromRemoteKeepsDetail(status, body) ==
  LET remote == IF body.json /\ body.detail # "" THEN body.detail
                ELSE IF body.json /\ body.message # "" THEN body.message
                ELSE requestFailed(status)
  IN  IF body.hasText /\ ~body.json
      THEN IF body.codeField \/ body.notFound THEN Unavailable
           ELSE IF status = 404 THEN "Requested resource not found. Please try again."
           ELSE IF status >= 500 THEN ServiceError
           ELSE remote
      ELSE IF body.notFound \/ body.pageGone \/ body.code = "NOT_FOUND"
           THEN Unavailable
           ELSE remote

\* the message of the error mailTmRequest throws for a response that is not
\* ok and is not retried
messageFromRemote(status, body) ==
  LET remote == IF body.json /\ body.detail # "" THEN body.detail
                ELSE IF body.json /\ body.message # "" THEN body.message
                ELSE requestFailed(status)
  IN  IF body.hasText /\ ~body.json
      THEN IF body.codeField \/ body.notFound THEN Unavailable
           ELSE IF status = 404 THEN "Requested resource not found. Please try again."
           ELSE IF status >= 500 THEN ServiceError
           ELSE remote
      ELSE IF body.notFound \/ body.pageGone \/ body.code = "NOT_FOUND"
           THEN Unavailable
           ELSE IF status >= 500 THEN ServiceError
           ELSE remote

\* String.prototype.includes on the messages an error can carry
messageIncludes(message, word) ==
  CASE word = "mail.tm request failed" ->
         \E status \in FailureStatuses : message = requestFailed(status)
    [] word = "ID:" -> message = "Error ID: 7f3a"
    [] word = "Code:" -> message = "Code: E_LIMIT"
    [] OTHER -> FALSE

\* parseInt of the digits errorMessage.match(/\((\d+)\)/) finds
statusMatch(message) ==
  CHOOSE status \in FailureStatuses : message = requestFailed(status)

\* errorMessage.split("\n")[0].replace(/^\d+:\s*/, "") on a message of one
\* line that does not start with digits
firstLine(message) == message

\* the error handler: the status and the body it answers with
errorHandler(err) ==
  LET status == IF err.status # NoStatus THEN err.status ELSE 500
      given == IF err.message # "" THEN err.message ELSE "Unexpected error"
      named == IF messageIncludes(given, "mail.tm request failed")
               THEN IF statusMatch(given) >= 500 THEN ServiceError
                    ELSE IF statusMatch(given) = 404 THEN Unavailable
                    ELSE "Unable to create mailbox at this time. Please try again."
               ELSE given
      errorMessage ==
        IF messageIncludes(named, "ID:") \/ messageIncludes(named, "Code:")
        THEN IF messageIncludes(named, "NOT_FOUND") \/ status = 404
             THEN "The requested resource was not found. Please try again."
             ELSE IF messageIncludes(named, "not_found") THEN Unavailable
             ELSE firstLine(named)
        ELSE named
  IN  [status |-> status, error |-> errorMessage]

\* ------------------------------------------------------------------------
\* Domain catalog
\* ------------------------------------------------------------------------
EmptyCache == [expiresAt |-> 0, items |-> <<>>]

\* mutant: the cached list is still served at the time it expires
cacheHitAtExpiry(cache, at) == Len(cache.items) > 0 /\ cache.expiresAt >= at

\* the cached list is served without a request
cacheHit(cache, at) == Len(cache.items) > 0 /\ cache.expiresAt > at

\* payload?.["hydra:member"] || []
hydraMember(data) == IF data.json /\ data.hasMember THEN data.member ELSE <<>>

\* mutant: a failed request is thrown even when a cached list exists
settleDomainsNoFallback(cache, at, res) ==
  IF res.ok
  THEN [cache |-> [items |-> hydraMember(res.data),
                   expiresAt |-> at + DOMAIN_CACHE_TTL_MS],
        threw |-> FALSE, items |-> hydraMember(res.data), error |-> PlainError("")]
  ELSE [cache |-> cache, threw |-> TRUE, items |-> <<>>, error |-> errorOf(res)]

\* mutant: a failed request without a cached list yields an empty list, and
\* the empty list is cached
settleDomainsEmptyOnFailure(cache, at, res) ==
  IF res.ok
  THEN [cache |-> [items |-> hydraMember(res.data),
                   expiresAt |-> at + DOMAIN_CACHE_TTL_MS],
        threw |-> FALSE, items |-> hydraMember(res.data), error |-> PlainError("")]
  ELSE IF Len(cache.items) > 0
       THEN [cache |-> cache, threw |-> FALSE, items |-> cache.items,
             error |-> PlainError("")]
       ELSE [cache |-> [items |-> <<>>, expiresAt |-> at + DOMAIN_CACHE_TTL_MS],
             threw |-> FALSE, items |-> <<>>, error |-> PlainError("")]

\* getAvailableDomains once its request has settled with res; at is the time
\* the call read at its start
settleDomains(cache, at, res) ==
  IF res.ok
  THEN [cache |-> [items |-> hydraMember(res.data),
                   expiresAt |-> at + DOMAIN_CACHE_TTL_MS],
        threw |-> FALSE, items |-> hydraMember(res.data), error |-> PlainError("")]
  ELSE IF Len(cache.items) > 0
       THEN [cache |-> cache, threw |-> FALSE, items |-> cache.items,
             error |-> PlainError("")]
       ELSE [cache |-> cache, threw |-> TRUE, items |-> <<>>, error |-> errorOf(res)]

normalizeDomainEntry(entry) ==
  IF entry.t = "null" THEN Null
  ELSE IF entry.t = "string" THEN entry.s
  ELSE IF entry.domain # Undefined THEN entry.domain
  ELSE IF entry.name # Undefined THEN entry.name
  ELSE IF entry.address # Undefined THEN entry.address
  ELSE Null

IsString(d) == d # Null

listDomainStrings(entries) ==
  SelectSeq([i \in 1..Len(entries) |-> normalizeDomainEntry(entries[i])], IsString)

IsPreferred(d) == includes(DEFAULT_PREFERRED_DOMAINS, toLowerCase(d))

\* the filter of getAvailablePreferredDomains and of pickMailTmDomain
preferredOf(domainStrings) == SelectSeq(domainStrings, IsPreferred)

\* getAvailablePreferredDomains, given the entries getAvailableDomains returned
getAvailablePreferredDomains(entries) ==
  sortDomains(preferredOf(listDomainStrings(entries)))

\* ------------------------------------------------------------------------
\* Rotation selector and trial loop: the pure steps
\* ------------------------------------------------------------------------
\* mutant: the cursor is incremented without the modulo
advanceCursorNoWrap(cursor, length) == cursor + 1

\* (domainRotationIndex + 1) % length
advanceCursor(cursor, length) == JsMod(cursor + 1, length)

\* candidates[domainRotationIndex % candidates.length]
rotationIndex(cursor, length) == JsMod(cursor, length)

\* the candidate list pickMailTmDomain rotates over
pickCandidates(domainStrings) ==
  IF Len(preferredOf(domainStrings)) > 0
  THEN preferredOf(domainStrings)
  ELSE domainStrings

\* mutant: pickMailTmDomain without its two guards against an empty list
pickRotateUnguarded(entries, cursor) ==
  LET candidates == pickCandidates(listDomainStrings(entries))
      i == rotationIndex(cursor, Len(candidates))
  IN  [threw |-> Len(candidates) = 0, error |-> PlainError(""),
       selected |-> At(candidates, i),
       cursor |-> advanceCursor(cursor, Len(candidates)),
       index |-> i, read |-> TRUE]

\* pickMailTmDomain without a requested domain, given the entries
\* getAvailableDomains returned and the cursor
pickRotate(entries, cursor) ==
  IF Len(entries) = 0
  THEN [threw |-> TRUE, error |-> PlainError("No disposable domains available"),
        selected |-> Undefined, cursor |-> cursor, index |-> NaN, read |-> FALSE]
  ELSE IF Len(listDomainStrings(entries)) = 0
  THEN [threw |-> TRUE, error |-> PlainError("Domain list is empty"),
        selected |-> Undefined, cursor |-> cursor, index |-> NaN, read |-> FALSE]
  ELSE LET candidates == pickCandidates(listDomainStrings(entries))
           i == rotationIndex(cursor, Len(candidates))
       IN  [threw |-> FALSE, error |-> PlainError(""),
            selected |-> At(candidates, i),
            cursor |-> advanceCursor(cursor, Len(candidates)),
            index |-> i, read |-> TRUE]

\* domainsToTry of provisionMailboxWithMailTm
buildDomainsToTry(availablePreferred, allDomainStrings) ==
  reorderDomains(IF Len(availablePreferred) > 0
                 THEN availablePreferred
                 ELSE allDomainStrings)

\* mutant: every domain of the list is tried, whatever its length
trialCapUncapped(length) == length

\* Math.min(domainsToTry.length, 15)
trialCap(length) == Min(length, MaxTrialDomains)

\* domainRotationIndex % domainsToTry.length
trialStart(cursor, length) == JsMod(cursor, length)

\* mutant: the trial index without the modulo
trialIndexNoWrap(startIndex, domainOffset, length) == startIndex + domainOffset

\* (startIndex + domainOffset) % domainsToTry.length
trialIndex(startIndex, domainOffset, length) ==
  IF startIndex = NaN THEN NaN ELSE JsMod(startIndex + domainOffset, length)

\* mutant: the catch block without its 429 branch
catchClassNo429(error) ==
  IF error.status >= 500 THEN "server"
  ELSE IF error.status = 422
          /\ error.data.json
          /\ (detailIncludes(error.data.detail, "rate")
              \/ detailIncludes(error.data.detail, "limit"))
       THEN "rate422"
  ELSE IF error.status \in {400, 409} THEN "retry"
  ELSE "other"

\* the branch of the catch block an error of the trial loop takes
catchClass(error) ==
  IF error.status >= 500 THEN "server"
  ELSE IF error.status = 429 THEN "rate429"
  ELSE IF error.status = 422
          /\ error.data.json
          /\ (detailIncludes(error.data.detail, "rate")
              \/ detailIncludes(error.data.detail, "limit"))
       THEN "rate422"
  ELSE IF error.status \in {400, 409} THEN "retry"
  ELSE "other"

\* mutant: the rate-limit message only when every domain but one was counted
exhaustedMessageButOne(rateLimitedDomains, maxDomainsToTry) ==
  IF rateLimitedDomains >= maxDomainsToTry - 1
  THEN "Unable to allocate mailbox. All domains are currently rate-limited. Please wait a few seconds and try again."
  ELSE "Unable to allocate mailbox at this time. The email service may be temporarily unavailable. Please try again in a few moments."

\* the message of the error a call throws when its trial sequence is exhausted
exhaustedMessage(rateLimitedDomains, maxDomainsToTry) ==
  IF rateLimitedDomains >= maxDomainsToTry - 2
  THEN "Unable to allocate mailbox. All domains are currently rate-limited. Please wait a few seconds and try again."
  ELSE "Unable to allocate mailbox at this time. The email service may be temporarily unavailable. Please try again in a few moments."

\* ------------------------------------------------------------------------
\* State
\* ------------------------------------------------------------------------
VARIABLES
  now,                  \* Date.now()
  domainRotationIndex,  \* the shared rotation cursor
  cachedDomains,        \* { expiresAt, items }
  pc,                   \* where each call stands
  gad,                  \* each call's frame of getAvailableDomains
  call,                 \* each call's locals of provisionMailboxWithMailTm
  result,               \* what each call returned or threw
  obs,                  \* what each call has been observed to do
  fn,                   \* a function of the engine applied on its own
  explicit,             \* each call's locals when a domain is requested (Case A)
  mailboxes,            \* the keys of the Map mailboxes
  heap,                 \* the mailbox objects, by mailboxId
  reg                   \* the registry's requests: frames and observations

vars ==
  <<now, domainRotationIndex, cachedDomains, pc, gad, call, result, obs, fn,
    explicit, mailboxes, heap, reg>>

NoError == PlainError("")

\* fetch: what the request of the frame did ("none": no request settled);
\* cacheAtFetch and cacheAfterFetch: the cache when the request settled and
\* as the frame left it
IdleGad ==
  [ret |-> "none", at |-> 0, threw |-> FALSE, items |-> <<>>, error |-> NoError,
   fetch |-> "none", cacheAtFetch |-> EmptyCache, cacheAfterFetch |-> EmptyCache]

IdleCall ==
  [availablePreferred |-> <<>>, domainsToTry |-> <<>>, maxDomainsToTry |-> 0,
   startIndex |-> 0, rateLimitedDomains |-> 0, domainOffset |-> 0,
   attempt |-> 0, domain |-> Undefined, account |-> NoData]

NoResult ==
  [kind |-> "none", domain |-> Undefined, accountId |-> Undefined,
   token |-> Undefined, refreshToken |-> Null, tokenExpiresAt |-> 0,
   error |-> NoError]

\* observations of a call: built: the candidate list `candidates` has been
\* built, of length `length`, when the cursor was cursorAt; reads: the indexes used on
\* the candidate list; advances: the writes of the cursor; cursorAfter: the
\* cursor as the call's last write (or its failed query) left it; rate429:
\* the number of leading domains whose single account creation was answered
\* 429 (NaN once any other failure was seen); exhausted: the trial sequence
\* ran out; timedOut: a request of the trial loop failed on the network or
\* the timeout after its retries; and, in the runs that count them (Counting),
\* creates: the account requests sent (each with a local-part of its own);
\* failures: the runs of the catch block;
\* last: whether the error it caught last was a collision (status 400 or
\* 409), a rate limit (status 429, or 422 with a detail that names a rate or
\* a limit) or another failure
IdleObs ==
  [built |-> FALSE, candidates |-> <<>>, length |-> 0, cursorAt |-> 0,
   cursorAfter |-> 0, reads |-> <<>>, advances |-> 0, rate429 |-> 0,
   exhausted |-> FALSE, timedOut |-> FALSE, creates |-> 0, failures |-> 0,
   last |-> "none"]

IdleFn ==
  [phase |-> "none", input |-> <<>>, permuted |-> <<>>, output |-> <<>>,
   outputPermuted |-> <<>>, again |-> <<>>]

\* what the catch block of Case A caught, and the request it came from
NoFailure == [from |-> "none", status |-> NoStatus, name |-> ""]

\* Case A: creates and tokens count the account and token requests sent;
\* failed counts what the catch block caught, collisions those with a status
\* of 400, 409 or 422; last is the one caught last; fatalBefore: an account
\* request before the last one caught failed with another status
IdleExplicit ==
  [preferredDomain |-> Null, domainStrings |-> <<>>, resolved |-> FALSE,
   domain |-> Undefined, attempt |-> 0, account |-> NoData,
   creates |-> 0, tokens |-> 0, failed |-> 0, collisions |-> 0,
   last |-> NoFailure, fatalBefore |-> FALSE]

\* ------------------------------------------------------------------------
\* Mailbox registry: the state
\* ------------------------------------------------------------------------
\* most mailboxes ever created, clock steps taken and messages listed
MaxMailboxes == 2
MaxElapses == 3
MaxMessages == 3

MailboxIds == 1..MaxMailboxes

MAILBOX_TTL_MINUTES == 15

MinuteMs == 60 * 1000

\* an object no reference is left to
NoMailbox ==
  [domain |-> Undefined, createdAt |-> 0, expiresAt |-> 0, accountId |-> Undefined,
   token |-> Undefined, refreshToken |-> Null, tokenExpiresAt |-> 0,
   lastMessageCount |-> 0]

\* what the last request to the registry (or run of the sweep) did
\* (found: the id was a key; wasGone: the id had been answered Expired
\* before; expiresBefore, keysBefore, heapBefore: the mailbox's expiresAt, the
\* keys and the objects as the request found them)
NoOp ==
  [op |-> "none", id |-> 0, at |-> 0, status |-> NoStatus, found |-> FALSE,
   wasGone |-> FALSE, expiresBefore |-> 0, keysBefore |-> {},
   heapBefore |-> [id \in MailboxIds |-> NoMailbox]]

\* the requests for messages that may be in flight together, and the one of
\* the runs without overlap
Fetchers == {"f1", "f2"}
OneFetcher == {"f1"}

\* the frame of fetchMailboxMessages (token: the token ensureMailTmToken
\* returned; answer: the body its /token request resolved with, if it sent
\* one)
IdleFetch ==
  [pc |-> "idle", id |-> 0, token |-> Undefined, listed |-> FALSE,
   members |-> <<>>, settled |-> <<>>, threw |-> FALSE, returned |-> <<>>,
   answer |-> NoData]

\* issued: the ids uuid() has returned; gone: the ids answered Expired
IdleReg ==
  [issued |-> 0, elapses |-> 0, gone |-> {}, last |-> NoOp,
   fetch |-> [f \in Fetchers |-> IdleFetch]]

\* the runs that count the account requests of a call start with this phase
Counting == fn.phase = "count"

Engine ==
  /\ explicit = [p \in Procs |-> IdleExplicit]
  /\ mailboxes = {}
  /\ heap = [id \in MailboxIds |-> NoMailbox]
  /\ reg = IdleReg
  /\ now = 0
  /\ domainRotationIndex = 0
  /\ cachedDomains = EmptyCache
  /\ pc = [p \in Procs |-> "idle"]
  /\ gad = [p \in Procs |-> IdleGad]
  /\ call = [p \in Procs |-> IdleCall]
  /\ result = [p \in Procs |-> NoResult]
  /\ obs = [p \in Procs |-> IdleObs]

Init ==
  /\ Engine
  /\ fn = IdleFn

\* ------------------------------------------------------------------------
\* getAvailableDomains
\* ------------------------------------------------------------------------
\* the call of getAvailableDomains up to its first await; ret names the caller
GadCall(p, ret) ==
  IF cacheHit(cachedDomains, now)
  THEN /\ gad' = [gad EXCEPT ![p] =
                    [IdleGad EXCEPT !.ret = ret, !.at = now,
                                    !.items = cachedDomains.items]]
       /\ pc' = [pc EXCEPT ![p] = "gad_ret"]
  ELSE /\ gad' = [gad EXCEPT ![p] = [IdleGad EXCEPT !.ret = ret, !.at = now]]
       /\ pc' = [pc EXCEPT ![p] = "gad_wait"]

\* the request for /domains settles
GadResponse(p, scripts) ==
  /\ pc[p] = "gad_wait"
  /\ \E script \in scripts :
       LET res == mailTmRequest(script)
           out == settleDomains(cachedDomains, gad[p].at, res)
       IN  /\ cachedDomains' = out.cache
           /\ gad' = [gad EXCEPT ![p].threw = out.threw,
                                 ![p].items = out.items,
                                 ![p].error = out.error,
                                 ![p].fetch = IF res.ok THEN "ok" ELSE "failed",
                                 ![p].cacheAtFetch = cachedDomains,
                                 ![p].cacheAfterFetch = out.cache]
  /\ pc' = [pc EXCEPT ![p] = "gad_ret"]
  /\ UNCHANGED <<fn, explicit, mailboxes, heap, reg, now, domainRotationIndex, call, result, obs>>

\* a call ends by throwing error
Throw(p, error) ==
  /\ pc' = [pc EXCEPT ![p] = "done"]
  /\ result' = [result EXCEPT ![p] = [NoResult EXCEPT !.kind = "error", !.error = error]]

\* ------------------------------------------------------------------------
\* pickMailTmDomain without a requested domain
\* ------------------------------------------------------------------------
PickStart(p) ==
  /\ pc[p] = "idle"
  /\ GadCall(p, "pick")
  /\ UNCHANGED <<fn, explicit, mailboxes, heap, reg, now, domainRotationIndex, cachedDomains, call, result, obs>>

PickResolve(p) ==
  /\ pc[p] = "gad_ret"
  /\ gad[p].ret = "pick"
  /\ gad' = [gad EXCEPT ![p] = IdleGad]
  /\ IF gad[p].threw
     THEN /\ Throw(p, gad[p].error)
          /\ UNCHANGED <<fn, explicit, mailboxes, heap, reg, domainRotationIndex, obs>>
     ELSE LET out == pickRotate(gad[p].items, domainRotationIndex)
          IN  /\ domainRotationIndex' = out.cursor
              /\ obs' = [obs EXCEPT
                   ![p].built = TRUE,
                   ![p].cursorAt = domainRotationIndex,
                   ![p].cursorAfter = out.cursor,
                   ![p].candidates = pickCandidates(listDomainStrings(gad[p].items)),
                   ![p].length = Len(pickCandidates(listDomainStrings(gad[p].items))),
                   ![p].reads = IF out.read THEN <<out.index>> ELSE <<>>,
                   ![p].advances = IF out.read THEN 1 ELSE 0]
              /\ IF out.threw
                 THEN Throw(p, out.error)
                 ELSE /\ pc' = [pc EXCEPT ![p] = "done"]
                      /\ result' = [result EXCEPT ![p] =
                           [NoResult EXCEPT !.kind = "domain", !.domain = out.selected]]
  /\ UNCHANGED <<fn, explicit, mailboxes, heap, reg, now, cachedDomains, call>>

\* ------------------------------------------------------------------------
\* provisionMailboxWithMailTm without a requested domain (Case B)
\* ------------------------------------------------------------------------
\* mutant: the token's lifetime is the default whatever the response says
authenticateMailTmDefaultLife(data, at) ==
  [token |-> data.token,
   refreshToken |-> IF data.refresh_token # Undefined THEN data.refresh_token
                    ELSE Null,
   tokenExpiresAt |-> at + DefaultTokenSeconds * 1000]

\* authenticateMailTm once POST /token has resolved with data, at the time
\* at: Number(data?.expires_in) || 3600 seconds from then
authenticateMailTm(data, at) ==
  [token |-> data.token,
   refreshToken |-> IF data.refresh_token # Undefined THEN data.refresh_token
                    ELSE Null,
   tokenExpiresAt |-> at + (IF data.expires_in # 0 THEN data.expires_in
                            ELSE DefaultTokenSeconds) * 1000]

\* `${localPart}@${domain}` and address.split("@")
emailAddress(localPart, domain) == <<localPart, domain>>

\* address.split("@")[1] || domain
actualDomain(address, domain) == IF Len(address) >= 2 THEN address[2] ELSE domain

\* the locals at the top of the body of the domain loop
beginDomain(c, domainOffset) ==
  [c EXCEPT !.domainOffset = domainOffset,
            !.attempt = 0,
            !.account = NoData,
            !.domain = At(c.domainsToTry,
                          trialIndex(c.startIndex, domainOffset, Len(c.domainsToTry)))]

\* mutant: a server error is retried on the same domain like a collision
afterCatchRetriesServerError(c, error) ==
  LET cls == catchClass(error)
      rl == IF cls \in {"rate429", "rate422"}
            THEN c.rateLimitedDomains + 1
            ELSE c.rateLimitedDomains
  IN  IF cls \in {"retry", "server"} /\ c.attempt + 1 < DomainAttempts
      THEN [exhausted |-> FALSE, moved |-> FALSE,
            call |-> [c EXCEPT !.attempt = c.attempt + 1, !.account = NoData]]
      ELSE IF c.domainOffset + 1 < c.maxDomainsToTry
      THEN [exhausted |-> FALSE, moved |-> TRUE,
            call |-> beginDomain([c EXCEPT !.rateLimitedDomains = rl],
                                 c.domainOffset + 1)]
      ELSE [exhausted |-> TRUE, moved |-> FALSE,
            call |-> [c EXCEPT !.rateLimitedDomains = rl,
                               !.account = NoData,
                               !.domainOffset = c.domainOffset + 1]]

\* mutant: a domain is tried three times
afterCatchRetriesThrice(c, error) ==
  LET cls == catchClass(error)
      rl == IF cls \in {"rate429", "rate422"}
            THEN c.rateLimitedDomains + 1
            ELSE c.rateLimitedDomains
  IN  IF cls = "retry" /\ c.attempt + 1 < DomainAttempts + 1
      THEN [exhausted |-> FALSE, moved |-> FALSE,
            call |-> [c EXCEPT !.attempt = c.attempt + 1, !.account = NoData]]
      ELSE IF c.domainOffset + 1 < c.maxDomainsToTry
      THEN [exhausted |-> FALSE, moved |-> TRUE,
            call |-> beginDomain([c EXCEPT !.rateLimitedDomains = rl],
                                 c.domainOffset + 1)]
      ELSE [exhausted |-> TRUE, moved |-> FALSE,
            call |-> [c EXCEPT !.rateLimitedDomains = rl,
                               !.account = NoData,
                               !.domainOffset = c.domainOffset + 1]]

\* mutant: an error without a status (network failure, timeout) ends the call
afterCatchAbortOnTimeout(c, error) ==
  LET cls == catchClass(error)
      rl == IF cls \in {"rate429", "rate422"}
            THEN c.rateLimitedDomains + 1
            ELSE c.rateLimitedDomains
  IN  IF cls = "retry" /\ c.attempt + 1 < DomainAttempts
      THEN [exhausted |-> FALSE, moved |-> FALSE,
            call |-> [c EXCEPT !.attempt = c.attempt + 1, !.account = NoData]]
      ELSE IF c.domainOffset + 1 < c.maxDomainsToTry /\ error.status # NoStatus
      THEN [exhausted |-> FALSE, moved |-> TRUE,
            call |-> beginDomain([c EXCEPT !.rateLimitedDomains = rl],
                                 c.domainOffset + 1)]
      ELSE [exhausted |-> TRUE, moved |-> FALSE,
            call |-> [c EXCEPT !.rateLimitedDomains = rl,
                               !.account = NoData,
                               !.domainOffset = c.domainOffset + 1]]

\* the catch block and the loop headers after it: the locals when the next
\* account request is sent, or when both loops have ended (exhausted)
afterCatch(c, error) ==
  LET cls == catchClass(error)
      rl == IF cls \in {"rate429", "rate422"}
            THEN c.rateLimitedDomains + 1
            ELSE c.rateLimitedDomains
  IN  IF cls = "retry" /\ c.attempt + 1 < DomainAttempts
      THEN [exhausted |-> FALSE, moved |-> FALSE,
            call |-> [c EXCEPT !.attempt = c.attempt + 1, !.account = NoData]]
      ELSE IF c.domainOffset + 1 < c.maxDomainsToTry
      THEN [exhausted |-> FALSE, moved |-> TRUE,
            call |-> beginDomain([c EXCEPT !.rateLimitedDomains = rl],
                                 c.domainOffset + 1)]
      ELSE [exhausted |-> TRUE, moved |-> FALSE,
            call |-> [c EXCEPT !.rateLimitedDomains = rl,
                               !.account = NoData,
                               !.domainOffset = c.domainOffset + 1]]

ProvisionStart(p) ==
  /\ pc[p] = "idle"
  /\ GadCall(p, "pref")
  /\ UNCHANGED <<fn, explicit, mailboxes, heap, reg, now, domainRotationIndex, cachedDomains, call, result, obs>>

\* getAvailablePreferredDomains returns; getAvailableDomains is called again
AfterPreferred(p) ==
  /\ pc[p] = "gad_ret"
  /\ gad[p].ret = "pref"
  /\ IF gad[p].threw
     THEN /\ Throw(p, gad[p].error)
          /\ gad' = [gad EXCEPT ![p] = IdleGad]
          /\ UNCHANGED call
     ELSE /\ call' = [call EXCEPT ![p].availablePreferred =
                        getAvailablePreferredDomains(gad[p].items)]
          /\ GadCall(p, "all")
          /\ UNCHANGED result
  /\ UNCHANGED <<fn, explicit, mailboxes, heap, reg, now, domainRotationIndex, cachedDomains, obs>>

\* the candidate list is built and the first account request is sent
BuildTrial(p) ==
  /\ pc[p] = "gad_ret"
  /\ gad[p].ret = "all"
  /\ gad' = [gad EXCEPT ![p] = IdleGad]
  /\ IF gad[p].threw
     THEN /\ Throw(p, gad[p].error)
          /\ UNCHANGED <<fn, explicit, mailboxes, heap, reg, call, obs>>
     ELSE LET list == buildDomainsToTry(call[p].availablePreferred,
                                        listDomainStrings(gad[p].items))
              start == trialStart(domainRotationIndex, Len(list))
              c == [call[p] EXCEPT !.domainsToTry = list,
                                   !.maxDomainsToTry = trialCap(Len(list)),
                                   !.startIndex = start]
              seen == [obs[p] EXCEPT !.built = TRUE,
                                     !.candidates = list,
                                     !.cursorAt = domainRotationIndex,
                                     !.cursorAfter = domainRotationIndex,
                                     !.length = Len(list)]
          IN  IF Len(list) = 0
              THEN /\ Throw(p, PlainError("No domains available"))
                   /\ call' = [call EXCEPT ![p].domainsToTry = list]
                   /\ obs' = [obs EXCEPT ![p] = seen]
              ELSE /\ call' = [call EXCEPT ![p] = beginDomain(c, 0)]
                   /\ pc' = [pc EXCEPT ![p] = "create_wait"]
                   /\ obs' = [obs EXCEPT ![p] =
                        [seen EXCEPT !.reads = <<trialIndex(start, 0, Len(list))>>,
                                     !.creates = IF Counting THEN 1 ELSE 0]]
                   /\ UNCHANGED result
  /\ UNCHANGED <<fn, explicit, mailboxes, heap, reg, now, domainRotationIndex, cachedDomains>>

\* the catch block runs on error; cursor is the cursor as the try block left
\* it, advanced the number of times the try block wrote it
Caught(p, error, cursor, advanced, clean429) ==
  LET out == afterCatch(call[p], error)
      c == out.call
      length == Len(c.domainsToTry)
      seen == [obs[p] EXCEPT
                 !.advances = obs[p].advances + advanced,
                 !.cursorAfter = IF advanced > 0 THEN cursor ELSE obs[p].cursorAfter,
                 !.rate429 = IF clean429 /\ obs[p].rate429 # NaN
                             THEN obs[p].rate429 + 1
                             ELSE NaN,
                 !.timedOut = obs[p].timedOut
                              \/ (error.name = "TypeError" /\ advanced = 0),
                 !.failures = IF Counting THEN obs[p].failures + 1 ELSE 0,
                 !.creates = IF Counting /\ ~out.exhausted
                             THEN obs[p].creates + 1
                             ELSE obs[p].creates,
                 !.last = IF ~Counting THEN "none"
                          ELSE IF error.status \in {400, 409} THEN "collision"
                          ELSE IF error.status = 429
                                  \/ (error.status = 422 /\ error.data.json
                                      /\ (detailIncludes(error.data.detail, "rate")
                                          \/ detailIncludes(error.data.detail, "limit")))
                          THEN "limited"
                          ELSE "other"]
  IN  /\ call' = [call EXCEPT ![p] = c]
      /\ IF out.exhausted
         THEN /\ domainRotationIndex' = advanceCursor(cursor, length)
              /\ Throw(p, PlainError(exhaustedMessage(c.rateLimitedDomains,
                                                      c.maxDomainsToTry)))
              /\ obs' = [obs EXCEPT ![p] =
                           [seen EXCEPT !.advances = seen.advances + 1,
                                        !.exhausted = TRUE,
                                        !.cursorAfter = advanceCursor(cursor, length)]]
         ELSE /\ domainRotationIndex' = cursor
              /\ pc' = [pc EXCEPT ![p] = "create_wait"]
              /\ obs' = [obs EXCEPT ![p] =
                           [seen EXCEPT
                              !.reads = IF out.moved
                                        THEN Append(seen.reads,
                                               trialIndex(c.startIndex, c.domainOffset, length))
                                        ELSE seen.reads]]
              /\ UNCHANGED result

\* POST /accounts settles
CreateResponse(p, scripts) ==
  /\ pc[p] = "create_wait"
  /\ \E script \in scripts :
       LET res == mailTmRequest(script)
       IN  IF res.ok
           THEN /\ call' = [call EXCEPT ![p].account = res.data]
                /\ pc' = [pc EXCEPT ![p] = "token_wait"]
                /\ UNCHANGED <<fn, explicit, mailboxes, heap, reg, domainRotationIndex, result, obs>>
           ELSE Caught(p, errorOf(res), domainRotationIndex, 0,
                       res.status = 429 /\ call[p].attempt = 0)
  /\ UNCHANGED <<fn, explicit, mailboxes, heap, reg, now, cachedDomains, gad>>

\* POST /token settles
TokenResponse(p, scripts) ==
  /\ pc[p] = "token_wait"
  /\ \E script \in scripts :
       LET res == mailTmRequest(script)
           c == call[p]
           next == advanceCursor(domainRotationIndex, Len(c.domainsToTry))
       IN  IF ~res.ok
           THEN Caught(p, errorOf(res), domainRotationIndex, 0, FALSE)
           ELSE IF ~c.account.json
           THEN \* account is null: reading account.id throws inside the try
                Caught(p, TypeError, next, 1, FALSE)
           ELSE /\ domainRotationIndex' = next
                /\ pc' = [pc EXCEPT ![p] = "done"]
                /\ result' = [result EXCEPT ![p] =
                     [NoResult EXCEPT
                        !.kind = "credential",
                        !.domain = actualDomain(emailAddress("local", c.domain), c.domain),
                        !.accountId = c.account.id,
                        !.token = authenticateMailTm(res.data, now).token,
                        !.refreshToken = authenticateMailTm(res.data, now).refreshToken,
                        !.tokenExpiresAt =
                          authenticateMailTm(res.data, now).tokenExpiresAt]]
                /\ obs' = [obs EXCEPT ![p].advances = obs[p].advances + 1,
                                      ![p].cursorAfter = next]
                /\ call' = [call EXCEPT ![p].account = NoData]
  /\ UNCHANGED <<fn, explicit, mailboxes, heap, reg, now, cachedDomains, gad>>

\* ------------------------------------------------------------------------
\* provisionMailboxWithMailTm with a requested domain (Case A)
\* ------------------------------------------------------------------------
ExplicitAttempts == 5

\* the domains a request may name
RequestedDomains == {"mail.tm", "Mail.TM", "zeta.org", "unknown.example"}

\* the error pickMailTmDomain throws when the requested domain is not listed
UnknownDomainError(domainStrings) ==
  [status |-> 422,
   data |-> [NoData EXCEPT !.detail = "Requested domain is not available"],
   name |-> "Error", availableDomains |-> domainStrings]

\* domainStrings.find((domain) => domain.toLowerCase() === normalizedPreferred)
findMatch(domainStrings, preferredDomain) ==
  At(domainStrings, findIndex(domainStrings, toLowerCase(preferredDomain)))

\* mutant: a requested domain that is not listed falls back to the first one
pickExplicitFallsBack(entries, preferredDomain) ==
  IF Len(entries) = 0
  THEN [threw |-> TRUE, error |-> PlainError("No disposable domains available"),
        selected |-> Undefined]
  ELSE IF Len(listDomainStrings(entries)) = 0
  THEN [threw |-> TRUE, error |-> PlainError("Domain list is empty"),
        selected |-> Undefined]
  ELSE LET domainStrings == listDomainStrings(entries)
           match == findMatch(domainStrings, preferredDomain)
       IN  [threw |-> FALSE, error |-> NoError,
            selected |-> IF match = Undefined THEN domainStrings[1] ELSE match]

\* pickMailTmDomain with a requested domain, given the entries
\* getAvailableDomains returned
pickExplicit(entries, preferredDomain) ==
  IF Len(entries) = 0
  THEN [threw |-> TRUE, error |-> PlainError("No disposable domains available"),
        selected |-> Undefined]
  ELSE IF Len(listDomainStrings(entries)) = 0
  THEN [threw |-> TRUE, error |-> PlainError("Domain list is empty"),
        selected |-> Undefined]
  ELSE LET domainStrings == listDomainStrings(entries)
           match == findMatch(domainStrings, preferredDomain)
       IN  IF match = Undefined
           THEN [threw |-> TRUE, error |-> UnknownDomainError(domainStrings),
                 selected |-> Undefined]
           ELSE [threw |-> FALSE, error |-> NoError, selected |-> match]

\* mutant: a 429 is retried like a collision
explicitRetryableWith429(error) == error.status \in {400, 409, 422, 429}

\* [400, 409, 422].includes(error.status)
explicitRetryable(error) == error.status \in {400, 409, 422}

\* mutant: the loop runs while attempt <= 5
explicitLoopContinuesOneMore(attempt) == attempt <= ExplicitAttempts

\* the loop condition attempt < 5
explicitLoopContinues(attempt) == attempt < ExplicitAttempts

ExplicitStart(p) ==
  /\ pc[p] = "idle"
  /\ \E preferredDomain \in RequestedDomains :
       explicit' = [explicit EXCEPT ![p] =
                      [IdleExplicit EXCEPT !.preferredDomain = preferredDomain]]
  /\ GadCall(p, "explicit")
  /\ UNCHANGED <<fn, mailboxes, heap, reg, now, domainRotationIndex,
                 cachedDomains, call, result, obs>>

\* mutant: pickMailTmDomain advances the cursor for a requested domain too
ExplicitResolveRotates(p) ==
  /\ pc[p] = "gad_ret"
  /\ gad[p].ret = "explicit"
  /\ gad' = [gad EXCEPT ![p] = IdleGad]
  /\ IF gad[p].threw
     THEN /\ Throw(p, gad[p].error)
          /\ UNCHANGED <<explicit, domainRotationIndex>>
     ELSE LET out == pickExplicit(gad[p].items, explicit[p].preferredDomain)
              seen == [explicit[p] EXCEPT
                         !.resolved = TRUE,
                         !.domainStrings = listDomainStrings(gad[p].items)]
          IN  IF out.threw
              THEN /\ Throw(p, out.error)
                   /\ explicit' = [explicit EXCEPT ![p] = seen]
                   /\ UNCHANGED domainRotationIndex
              ELSE /\ explicit' = [explicit EXCEPT ![p] =
                                     [seen EXCEPT !.domain = out.selected,
                                                  !.creates = 1]]
                   /\ pc' = [pc EXCEPT ![p] = "x_create_wait"]
                   /\ domainRotationIndex' =
                        advanceCursor(domainRotationIndex, Len(seen.domainStrings))
                   /\ UNCHANGED result
  /\ UNCHANGED <<fn, mailboxes, heap, reg, now, cachedDomains, call, obs>>

\* pickMailTmDomain returns or throws; the first account request is sent
ExplicitResolve(p) ==
  /\ pc[p] = "gad_ret"
  /\ gad[p].ret = "explicit"
  /\ gad' = [gad EXCEPT ![p] = IdleGad]
  /\ IF gad[p].threw
     THEN /\ Throw(p, gad[p].error)
          /\ UNCHANGED explicit
     ELSE LET out == pickExplicit(gad[p].items, explicit[p].preferredDomain)
              seen == [explicit[p] EXCEPT
                         !.resolved = TRUE,
                         !.domainStrings = listDomainStrings(gad[p].items)]
          IN  IF out.threw
              THEN /\ Throw(p, out.error)
                   /\ explicit' = [explicit EXCEPT ![p] = seen]
              ELSE /\ explicit' = [explicit EXCEPT ![p] =
                                     [seen EXCEPT !.domain = out.selected,
                                                  !.creates = 1]]
                   /\ pc' = [pc EXCEPT ![p] = "x_create_wait"]
                   /\ UNCHANGED result
  /\ UNCHANGED <<fn, mailboxes, heap, reg, now, domainRotationIndex,
                 cachedDomains, call, obs>>

\* the catch block of the attempt loop and the loop header after it
ExplicitCaught(p, error, from) ==
  LET e == explicit[p]
      x == [e EXCEPT
              !.account = NoData,
              !.failed = e.failed + 1,
              !.collisions = IF error.status \in {400, 409, 422}
                             THEN e.collisions + 1
                             ELSE e.collisions,
              !.fatalBefore = e.fatalBefore
                              \/ (e.last.from = "accounts"
                                  /\ e.last.status \notin {400, 409, 422}),
              !.last = [from |-> from, status |-> error.status,
                        name |-> error.name]]
  IN  IF explicitRetryable(error)
      THEN IF explicitLoopContinues(x.attempt + 1)
           THEN /\ explicit' = [explicit EXCEPT ![p] =
                                  [x EXCEPT !.attempt = x.attempt + 1,
                                            !.creates = x.creates + 1]]
                /\ pc' = [pc EXCEPT ![p] = "x_create_wait"]
                /\ UNCHANGED result
           ELSE /\ explicit' = [explicit EXCEPT ![p] =
                                  [x EXCEPT !.attempt = x.attempt + 1]]
                /\ Throw(p, PlainError("Unable to allocate mailbox at this time"))
      ELSE /\ explicit' = [explicit EXCEPT ![p] = x]
           /\ Throw(p, error)

\* POST /accounts settles
ExplicitCreateResponse(p, scripts) ==
  /\ pc[p] = "x_create_wait"
  /\ \E script \in scripts :
       LET res == mailTmRequest(script)
       IN  IF res.ok
           THEN /\ explicit' = [explicit EXCEPT
                                  ![p].account = res.data,
                                  ![p].tokens = explicit[p].tokens + 1]
                /\ pc' = [pc EXCEPT ![p] = "x_token_wait"]
                /\ UNCHANGED result
           ELSE ExplicitCaught(p, errorOf(res), "accounts")
  /\ UNCHANGED <<fn, mailboxes, heap, reg, now, domainRotationIndex,
                 cachedDomains, gad, call, obs>>

\* POST /token settles
ExplicitTokenResponse(p, scripts) ==
  /\ pc[p] = "x_token_wait"
  /\ \E script \in scripts :
       LET res == mailTmRequest(script)
           x == explicit[p]
       IN  IF ~res.ok
           THEN ExplicitCaught(p, errorOf(res), "token")
           ELSE IF ~x.account.json
           THEN \* account is null: reading account.id throws inside the try
                ExplicitCaught(p, TypeError, "code")
           ELSE /\ pc' = [pc EXCEPT ![p] = "done"]
                /\ result' = [result EXCEPT ![p] =
                     [NoResult EXCEPT
                        !.kind = "credential",
                        !.domain = actualDomain(emailAddress("local", x.domain), x.domain),
                        !.accountId = x.account.id,
                        !.token = authenticateMailTm(res.data, now).token,
                        !.refreshToken = authenticateMailTm(res.data, now).refreshToken,
                        !.tokenExpiresAt =
                          authenticateMailTm(res.data, now).tokenExpiresAt]]
                /\ explicit' = [explicit EXCEPT ![p].account = NoData]
  /\ UNCHANGED <<fn, mailboxes, heap, reg, now, domainRotationIndex,
                 cachedDomains, gad, call, obs>>

\* ------------------------------------------------------------------------
\* Mailbox registry
\* ------------------------------------------------------------------------
\* dayjs(createdAt).add(MAILBOX_TTL_MINUTES, "minute")
addTtl(at) == at + MAILBOX_TTL_MINUTES * MinuteMs

\* dayjs().isAfter(time)
isAfter(at, time) == at > time

\* mutant: a mailbox in the Map is returned whatever its expiresAt
ensureMailboxNoExpiry(keys, objects, mailboxId, at) ==
  IF mailboxId \notin keys
  THEN [status |-> 404, evict |-> FALSE]
  ELSE [status |-> 200, evict |-> FALSE]

\* mutant: an expired mailbox is answered Expired and left in the Map
ensureMailboxKeepsExpired(keys, objects, mailboxId, at) ==
  IF mailboxId \notin keys
  THEN [status |-> 404, evict |-> FALSE]
  ELSE IF isAfter(at, objects[mailboxId].expiresAt)
  THEN [status |-> 410, evict |-> FALSE]
  ELSE [status |-> 200, evict |-> FALSE]

\* ensureMailbox: the status it answers with (200: it returns the mailbox)
\* and whether it deletes the key
ensureMailbox(keys, objects, mailboxId, at) ==
  IF mailboxId \notin keys
  THEN [status |-> 404, evict |-> FALSE]
  ELSE IF isAfter(at, objects[mailboxId].expiresAt)
  THEN [status |-> 410, evict |-> TRUE]
  ELSE [status |-> 200, evict |-> FALSE]

\* mutant: the extension is added to the time that was left
extendExpiryAdditive(at, previous) == addTtl(previous)

\* dayjs().add(MAILBOX_TTL_MINUTES, "minute")
extendExpiry(at, previous) == addTtl(at)

\* mutant: the sweep also removes a mailbox that expires at the sweep's time
sweepRemovesAtExpiry(at, expiresAt) == at >= expiresAt

\* the sweep's test now.isAfter(mailbox.expiresAt)
sweepRemoves(at, expiresAt) == isAfter(at, expiresAt)

\* mutant: the lifetime is counted in seconds
newMailboxTtlSeconds(remote, at, tokenExpiresAt) ==
  [domain |-> remote.domain, createdAt |-> at,
   expiresAt |-> at + MAILBOX_TTL_MINUTES * 1000,
   accountId |-> remote.accountId, token |-> remote.token,
   refreshToken |-> remote.refreshToken,
   tokenExpiresAt |-> tokenExpiresAt, lastMessageCount |-> 0]

\* the object createMailbox stores
newMailbox(remote, at, tokenExpiresAt) ==
  [domain |-> remote.domain, createdAt |-> at, expiresAt |-> addTtl(at),
   accountId |-> remote.accountId, token |-> remote.token,
   refreshToken |-> remote.refreshToken,
   tokenExpiresAt |-> tokenExpiresAt, lastMessageCount |-> 0]

\* the objects once the keys in removed are deleted: an object stays only
\* while a frame of fetchMailboxMessages holds it
release(objects, removed, fetch) ==
  [id \in MailboxIds |->
     IF id \in removed
        /\ ~(\E f \in Fetchers : fetch[f].pc # "idle" /\ fetch[f].id = id)
     THEN NoMailbox
     ELSE objects[id]]

\* what a request that starts with ensureMailbox leaves in reg.last
ensured(op, mailboxId, out) ==
  [NoOp EXCEPT !.op = op, !.id = mailboxId, !.at = now, !.status = out.status,
               !.found = mailboxId \in mailboxes,
               !.wasGone = mailboxId \in reg.gone,
               !.expiresBefore = heap[mailboxId].expiresAt,
               !.keysBefore = mailboxes]

\* the effect of ensureMailbox on the Map
Ensure(op, mailboxId, out) ==
  /\ mailboxes' = IF out.evict THEN mailboxes \ {mailboxId} ELSE mailboxes
  /\ reg' = [reg EXCEPT
               !.last = ensured(op, mailboxId, out),
               !.gone = IF out.status = 410 THEN reg.gone \cup {mailboxId} ELSE reg.gone]

\* GET /api/mailboxes/:mailboxId
Get(mailboxId) ==
  LET out == ensureMailbox(mailboxes, heap, mailboxId, now)
  IN  /\ Ensure("get", mailboxId, out)
      /\ heap' = IF out.evict THEN release(heap, {mailboxId}, reg.fetch) ELSE heap
      /\ UNCHANGED <<fn, explicit, now, domainRotationIndex, cachedDomains,
                     pc, gad, call, result, obs>>

\* mutant: the extension also gives the stored token a new hour
ExtendRenewsToken(mailboxId) ==
  LET out == ensureMailbox(mailboxes, heap, mailboxId, now)
  IN  /\ Ensure("extend", mailboxId, out)
      /\ heap' = IF out.evict THEN release(heap, {mailboxId}, reg.fetch)
                 ELSE IF out.status = 200
                 THEN [heap EXCEPT ![mailboxId].expiresAt =
                         extendExpiry(now, heap[mailboxId].expiresAt),
                                   ![mailboxId].tokenExpiresAt =
                         now + DefaultTokenSeconds * 1000]
                 ELSE heap
      /\ UNCHANGED <<fn, explicit, now, domainRotationIndex, cachedDomains,
                     pc, gad, call, result, obs>>

\* POST /api/mailboxes/:mailboxId/extend
Extend(mailboxId) ==
  LET out == ensureMailbox(mailboxes, heap, mailboxId, now)
  IN  /\ Ensure("extend", mailboxId, out)
      /\ heap' = IF out.evict THEN release(heap, {mailboxId}, reg.fetch)
                 ELSE IF out.status = 200
                 THEN [heap EXCEPT ![mailboxId].expiresAt =
                         extendExpiry(now, heap[mailboxId].expiresAt)]
                 ELSE heap
      /\ UNCHANGED <<fn, explicit, now, domainRotationIndex, cachedDomains,
                     pc, gad, call, result, obs>>

\* the callback of setInterval
Sweep ==
  LET removed == { id \in mailboxes : sweepRemoves(now, heap[id].expiresAt) }
  IN  /\ mailboxes' = mailboxes \ removed
      /\ heap' = release(heap, removed, reg.fetch)
      /\ reg' = [reg EXCEPT !.last =
                   [NoOp EXCEPT !.op = "sweep", !.at = now,
                                !.keysBefore = mailboxes, !.heapBefore = heap]]
      /\ UNCHANGED <<fn, explicit, now, domainRotationIndex, cachedDomains,
                     pc, gad, call, result, obs>>

\* POST /api/mailboxes without a domain: createMailbox calls
\* provisionMailboxWithMailTm
CreateStart(p) ==
  /\ reg.issued < MaxMailboxes
  /\ ProvisionStart(p)

\* provisionMailboxWithMailTm has settled: createMailbox stores the mailbox,
\* or the route passes the error on
CreateMailbox(p) ==
  /\ pc[p] = "done"
  /\ IF result[p].kind = "credential"
     THEN LET mailboxId == reg.issued + 1
          IN  /\ mailboxes' = mailboxes \cup {mailboxId}
              /\ heap' = [heap EXCEPT ![mailboxId] =
                            newMailbox(result[p], now, result[p].tokenExpiresAt)]
              /\ reg' = [reg EXCEPT
                           !.issued = mailboxId,
                           !.last = [NoOp EXCEPT !.op = "create", !.id = mailboxId,
                                                 !.at = now, !.status = 201,
                                                 !.keysBefore = mailboxes,
                                                 !.heapBefore = heap]]
     ELSE /\ reg' = [reg EXCEPT
                       !.last = [NoOp EXCEPT !.op = "create", !.at = now,
                                             !.status = result[p].error.status,
                                             !.keysBefore = mailboxes,
                                             !.heapBefore = heap]]
          /\ UNCHANGED <<mailboxes, heap>>
  /\ pc' = [pc EXCEPT ![p] = "idle"]
  /\ gad' = [gad EXCEPT ![p] = IdleGad]
  /\ call' = [call EXCEPT ![p] = IdleCall]
  /\ result' = [result EXCEPT ![p] = NoResult]
  /\ obs' = [obs EXCEPT ![p] = IdleObs]
  /\ UNCHANGED <<fn, explicit, now, domainRotationIndex, cachedDomains>>

\* ------------------------------------------------------------------------
\* fetchMailboxMessages
\* ------------------------------------------------------------------------
MessageId(i) == "m" \o ToString(i)

\* the summaries of the first n messages
Inbox(n) == [i \in 1..n |-> [id |-> MessageId(i)]]

\* the answers one HTTP attempt of GET /messages can get
ListAnswers ==
  { Http(200, Members(Inbox(n))) : n \in {0, 1, MaxMessages} }
    \cup { Http(200, NoData), Http(401, Json("Invalid JWT Token")) }

\* the answers one HTTP attempt of GET /messages/{id} can get
DetailAnswers(id) ==
  { Http(200, [Json("") EXCEPT !.id = id]), Http(200, NoData), Http(404, NoData) }

\* mailbox.token && dayjs().isBefore(mailbox.tokenExpiresAt)
tokenValid(mailbox, at) == mailbox.token # Undefined /\ at < mailbox.tokenExpiresAt

\* a promise of Promise.allSettled, settled with the outcome of its request
settle(res) ==
  [status |-> IF res.ok THEN "fulfilled" ELSE "rejected",
   json |-> res.data.json, id |-> res.data.id]

IsFulfilled(outcome) == outcome.status = "fulfilled"

\* the filter and the two maps over the settled promises; reading a property
\* of a null message throws
normalize(settled) ==
  LET successfulMessages == SelectSeq(settled, IsFulfilled)
  IN  IF \E i \in 1..Len(successfulMessages) : ~successfulMessages[i].json
      THEN [threw |-> TRUE, normalized |-> <<>>]
      ELSE [threw |-> FALSE,
            normalized |-> [i \in 1..Len(successfulMessages) |->
                              successfulMessages[i].id]]

\* GET /api/mailboxes/:mailboxId/messages up to its first request
FetchStart(f, mailboxId) ==
  LET out == ensureMailbox(mailboxes, heap, mailboxId, now)
      mailbox == heap[mailboxId]
  IN  /\ reg.fetch[f].pc = "idle"
      /\ mailboxes' = IF out.evict THEN mailboxes \ {mailboxId} ELSE mailboxes
      /\ heap' = IF out.evict THEN release(heap, {mailboxId}, reg.fetch) ELSE heap
      /\ reg' = [reg EXCEPT
                   !.last = ensured("messages", mailboxId, out),
                   !.gone = IF out.status = 410 THEN reg.gone \cup {mailboxId}
                            ELSE reg.gone,
                   !.fetch[f] =
                             IF out.status # 200 THEN IdleFetch
                             ELSE [IdleFetch EXCEPT
                                     !.id = mailboxId,
                                     !.token = mailbox.token,
                                     !.pc = IF tokenValid(mailbox, now)
                                            THEN "list_wait"
                                            ELSE "auth_wait"]]
      /\ UNCHANGED <<fn, explicit, now, domainRotationIndex, cachedDomains,
                     pc, gad, call, result, obs>>

\* POST /token of ensureMailTmToken settles
FetchAuth(f, scripts) ==
  /\ reg.fetch[f].pc = "auth_wait"
  /\ \E script \in scripts :
       LET res == mailTmRequest(script)
           id == reg.fetch[f].id
           auth == authenticateMailTm(res.data, now)
       IN  IF res.ok
           THEN /\ heap' = [heap EXCEPT
                              ![id].token = auth.token,
                              ![id].refreshToken = auth.refreshToken,
                              ![id].tokenExpiresAt = auth.tokenExpiresAt]
                /\ reg' = [reg EXCEPT !.fetch[f].token = auth.token,
                                      !.fetch[f].answer = res.data,
                                      !.fetch[f].pc = "list_wait"]
           ELSE /\ reg' = [reg EXCEPT !.fetch[f].threw = TRUE,
                                      !.fetch[f].pc = "done"]
                /\ UNCHANGED heap
  /\ UNCHANGED <<fn, explicit, mailboxes, now, domainRotationIndex,
                 cachedDomains, pc, gad, call, result, obs>>

\* GET /messages settles
FetchList(f, scripts) ==
  /\ reg.fetch[f].pc = "list_wait"
  /\ \E script \in scripts :
       LET res == mailTmRequest(script)
           id == reg.fetch[f].id
           members == hydraMember(res.data)
       IN  IF ~res.ok
           THEN /\ reg' = [reg EXCEPT !.fetch[f].threw = TRUE,
                                      !.fetch[f].pc = "done"]
                /\ UNCHANGED heap
           ELSE IF Len(members) = 0
           THEN /\ heap' = [heap EXCEPT ![id].lastMessageCount = 0]
                /\ reg' = [reg EXCEPT !.fetch[f].listed = TRUE,
                                      !.fetch[f].pc = "done"]
           ELSE /\ reg' = [reg EXCEPT !.fetch[f].listed = TRUE,
                                      !.fetch[f].members = members,
                                      !.fetch[f].pc = "detail_wait"]
                /\ UNCHANGED heap
  /\ UNCHANGED <<fn, explicit, mailboxes, now, domainRotationIndex,
                 cachedDomains, pc, gad, call, result, obs>>

\* every GET /messages/{id} has settled
FetchDetails(f) ==
  /\ reg.fetch[f].pc = "detail_wait"
  /\ LET members == reg.fetch[f].members
         id == reg.fetch[f].id
     IN  \E answers \in [1..Len(members) -> UNION { DetailAnswers(members[i].id) :
                                                      i \in 1..Len(members) }] :
           /\ \A i \in 1..Len(members) : answers[i] \in DetailAnswers(members[i].id)
           /\ LET detailed == [i \in 1..Len(members) |->
                                settle(mailTmRequest(Script(NetFailure, 0, answers[i])))]
                  out == normalize(detailed)
              IN  /\ heap' = IF out.threw THEN heap
                             ELSE [heap EXCEPT ![id].lastMessageCount =
                                     Len(out.normalized)]
                  /\ reg' = [reg EXCEPT !.fetch[f].settled = detailed,
                                        !.fetch[f].threw = out.threw,
                                        !.fetch[f].returned = out.normalized,
                                        !.fetch[f].pc = "done"]
  /\ UNCHANGED <<fn, explicit, mailboxes, now, domainRotationIndex,
                 cachedDomains, pc, gad, call, result, obs>>

\* the route has answered; the frame is gone
FetchReturn(f) ==
  /\ reg.fetch[f].pc = "done"
  /\ reg' = [reg EXCEPT !.fetch[f] = IdleFetch]
  /\ heap' = release(heap, {reg.fetch[f].id} \ mailboxes,
                     [reg.fetch EXCEPT ![f] = IdleFetch])
  /\ UNCHANGED <<fn, explicit, mailboxes, now, domainRotationIndex,
                 cachedDomains, pc, gad, call, result, obs>>

\* provisioning reads neither the Map nor the objects in it, and the
\* registry's requests read nothing of a provisioning in flight, so their
\* steps commute: the clock and the requests are interleaved with a create at
\* its first await, and before and after it
Quiet == \A p \in Procs : pc[p] \in {"idle", "gad_wait"}

\* time passes, by one of ElapseSteps
ElapseSteps == {1 * MinuteMs, 14 * MinuteMs}

Elapse ==
  /\ reg.elapses < MaxElapses
  /\ Quiet
  /\ \E d \in ElapseSteps : now' = now + d
  /\ reg' = [reg EXCEPT !.elapses = reg.elapses + 1]
  /\ UNCHANGED <<fn, explicit, mailboxes, heap, domainRotationIndex,
                 cachedDomains, pc, gad, call, result, obs>>

\* the route handler has answered; the call's frame is gone
Return(p) ==
  /\ pc[p] = "done"
  /\ pc' = [pc EXCEPT ![p] = "idle"]
  /\ gad' = [gad EXCEPT ![p] = IdleGad]
  /\ call' = [call EXCEPT ![p] = IdleCall]
  /\ result' = [result EXCEPT ![p] = NoResult]
  /\ obs' = [obs EXCEPT ![p] = IdleObs]
  /\ explicit' = [explicit EXCEPT ![p] = IdleExplicit]
  /\ UNCHANGED <<fn, mailboxes, heap, reg, now, domainRotationIndex, cachedDomains>>

\* time passes.  The trial loop reads neither the clock nor the cache, so the
\* clock is advanced only while no call is inside it.
Tick ==
  /\ now < MaxTicks * TickMs
  /\ \A p \in Procs :
       pc[p] \notin {"create_wait", "token_wait", "x_create_wait", "x_token_wait"}
  /\ now' = now + TickMs
  /\ UNCHANGED <<fn, explicit, mailboxes, heap, reg, domainRotationIndex, cachedDomains, pc, gad, call, result, obs>>

\* ------------------------------------------------------------------------
\* Specifications
\* ------------------------------------------------------------------------
\* Spec: one call after another, every upstream answer, catalogs of a few
\* domains, the clock running
Next ==
  \/ Tick
  \/ \E p \in Single : PickStart(p)
  \/ \E p \in Single : PickResolve(p)
  \/ \E p \in Single : ProvisionStart(p)
  \/ \E p \in Single : GadResponse(p, DomainScripts)
  \/ \E p \in Single : AfterPreferred(p)
  \/ \E p \in Single : BuildTrial(p)
  \/ \E p \in Single : CreateResponse(p, AccountScripts)
  \/ \E p \in Single : TokenResponse(p, TokenScripts)
  \/ \E p \in Single : Return(p)

Spec == Init /\ [][Next]_vars

\* SpecConc: calls in flight together, within one tick of the clock
NextConc ==
  \/ \E p \in Procs : PickStart(p)
  \/ \E p \in Procs : PickResolve(p)
  \/ \E p \in Procs : ProvisionStart(p)
  \/ \E p \in Procs : GadResponse(p, ConcDomainScripts)
  \/ \E p \in Procs : AfterPreferred(p)
  \/ \E p \in Procs : BuildTrial(p)
  \/ \E p \in Procs : CreateResponse(p, ConcAccountScripts)
  \/ \E p \in Procs : TokenResponse(p, ConcTokenScripts)
  \/ \E p \in Procs : Return(p)

SpecConc == Init /\ [][NextConc]_vars

\* SpecBig: one call after another over a catalog longer than the trial cap
NextBig ==
  \/ \E p \in Single : ProvisionStart(p)
  \/ \E p \in Single : GadResponse(p, BigDomainScripts)
  \/ \E p \in Single : AfterPreferred(p)
  \/ \E p \in Single : BuildTrial(p)
  \/ \E p \in Single : CreateResponse(p, BigAccountScripts)
  \/ \E p \in Single : TokenResponse(p, BigTokenScripts)
  \/ \E p \in Single : Return(p)

SpecBig == Init /\ [][NextBig]_vars

\* SpecTrial: one Case B call after another with its account requests
\* counted, over catalogs of five, three and two candidates, one of them
\* listing a domain twice and in another letter case, and every class of
\* failure
TrialCatalogs ==
  { << ObjEntry("comfythings.com"), ObjEntry("doer.sbs"), StrEntry("ekii.de"),
       ObjEntry("mail.tm"), ObjEntry("badfist.com"), ObjEntry("zeta.org") >>,
    << ObjEntry("zeta.org"), ObjEntry("doer.sbs"), ObjEntry("Mail.TM"),
       StrEntry("ekii.de") >>,
    << ObjEntry("mail.tm"), ObjEntry("Mail.TM"), StrEntry("mail.tm") >>,
    << StrEntry("beta.net"), ObjEntry("alpha.net") >> }

TrialDomainScripts == Direct({ Http(200, Members(c)) : c \in TrialCatalogs })

TrialAccountScripts ==
  Direct({ Http(201, [Json("") EXCEPT !.id = "acc"]),
           Http(400, Json("bad request")),
           Http(409, Json("address: already used")),
           Http(422, Json("rate limit exceeded")),
           Http(429, Json("Too Many Requests")),
           Http(404, NoData),
           Http(503, NoData),
           NetFailure })

TrialTokenScripts ==
  Direct({ Http(200, [Json("") EXCEPT !.token = "jwt"]),
           Http(429, Json("Too Many Requests")),
           Http(500, Json("Internal Server Error")) })

InitTrial ==
  /\ Engine
  /\ fn = [IdleFn EXCEPT !.phase = "count"]

NextTrial ==
  \/ \E p \in Single : ProvisionStart(p)
  \/ \E p \in Single : GadResponse(p, TrialDomainScripts)
  \/ \E p \in Single : AfterPreferred(p)
  \/ \E p \in Single : BuildTrial(p)
  \/ \E p \in Single : CreateResponse(p, TrialAccountScripts)
  \/ \E p \in Single : TokenResponse(p, TrialTokenScripts)
  \/ \E p \in Single : Return(p)

SpecTrial == InitTrial /\ [][NextTrial]_vars

\* SpecBatch: every call of Procs is made once, the calls in flight together
\* in every interleaving, from a cursor left by earlier calls (kept in
\* fn.input); an account request may be answered 201 without a body
BatchCursors == 0..2

BatchCatalogs ==
  { << ObjEntry("zeta.org"), ObjEntry("doer.sbs"), ObjEntry("Mail.TM"),
       StrEntry("ekii.de") >>,
    << StrEntry("beta.net"), ObjEntry("alpha.net") >> }

BatchDomainScripts == Direct({ Http(200, Members(c)) : c \in BatchCatalogs })

BatchAccountScripts ==
  Direct({ Http(201, [Json("") EXCEPT !.id = "acc"]),
           Http(201, NoData),
           Http(429, Json("Too Many Requests")) })

BatchTokenScripts ==
  Direct({ Http(200, [Json("") EXCEPT !.token = "jwt"]),
           Http(500, Json("Internal Server Error")) })

InitBatch ==
  /\ explicit = [p \in Procs |-> IdleExplicit]
  /\ mailboxes = {}
  /\ heap = [id \in MailboxIds |-> NoMailbox]
  /\ reg = IdleReg
  /\ now = 0
  /\ domainRotationIndex \in BatchCursors
  /\ cachedDomains = EmptyCache
  /\ pc = [p \in Procs |-> "idle"]
  /\ gad = [p \in Procs |-> IdleGad]
  /\ call = [p \in Procs |-> IdleCall]
  /\ result = [p \in Procs |-> NoResult]
  /\ obs = [p \in Procs |-> IdleObs]
  /\ fn = [IdleFn EXCEPT !.phase = "batch", !.input = <<domainRotationIndex>>]

NextBatch ==
  \/ \E p \in Procs : ProvisionStart(p)
  \/ \E p \in Procs : GadResponse(p, BatchDomainScripts)
  \/ \E p \in Procs : AfterPreferred(p)
  \/ \E p \in Procs : BuildTrial(p)
  \/ \E p \in Procs : CreateResponse(p, BatchAccountScripts)
  \/ \E p \in Procs : TokenResponse(p, BatchTokenScripts)

SpecBatch == InitBatch /\ [][NextBatch]_vars

\* SpecPair: two calls one after the other: the second is made once the
\* first has returned or thrown, and what the first returned is kept
First == "c1"
Second == "c2"

InTurn(p) == p = Second => pc[First] = "done"

NextPair ==
  \/ \E p \in Procs : InTurn(p) /\ ProvisionStart(p)
  \/ \E p \in Procs : InTurn(p) /\ GadResponse(p, BatchDomainScripts)
  \/ \E p \in Procs : InTurn(p) /\ AfterPreferred(p)
  \/ \E p \in Procs : InTurn(p) /\ BuildTrial(p)
  \/ \E p \in Procs : InTurn(p) /\ CreateResponse(p, BatchAccountScripts)
  \/ \E p \in Procs : InTurn(p) /\ TokenResponse(p, BatchTokenScripts)

SpecPair == InitBatch /\ [][NextPair]_vars

\* SpecMixed: one call after another, with a requested domain or without
MixedDomainScripts ==
  Direct({ Http(200, Members(<< ObjEntry("zeta.org"), ObjEntry("doer.sbs"),
                                ObjEntry("Mail.TM"), StrEntry("ekii.de") >>)),
           NetFailure })

MixedAccountScripts ==
  Direct({ Http(201, [Json("") EXCEPT !.id = "acc"]),
           Http(409, Json("address: already used")),
           Http(429, Json("Too Many Requests")) })

MixedTokenScripts ==
  Direct({ Http(200, [Json("") EXCEPT !.token = "jwt"]),
           Http(500, Json("Internal Server Error")) })

NextMixed ==
  \/ \E p \in Single : ProvisionStart(p)
  \/ \E p \in Single : ExplicitStart(p)
  \/ \E p \in Single : GadResponse(p, MixedDomainScripts)
  \/ \E p \in Single : AfterPreferred(p)
  \/ \E p \in Single : BuildTrial(p)
  \/ \E p \in Single : ExplicitResolve(p)
  \/ \E p \in Single : CreateResponse(p, MixedAccountScripts)
  \/ \E p \in Single : TokenResponse(p, MixedTokenScripts)
  \/ \E p \in Single : ExplicitCreateResponse(p, MixedAccountScripts)
  \/ \E p \in Single : ExplicitTokenResponse(p, MixedTokenScripts)
  \/ \E p \in Single : Return(p)

SpecMixed == Init /\ [][NextMixed]_vars

\* SpecCollide: the same over the catalog longer than the trial cap, the
\* account requests answered by collisions and server errors
CollideAccountScripts ==
  Direct({ Http(201, [Json("") EXCEPT !.id = "acc"]),
           Http(400, Json("bad request")),
           Http(409, Json("address: already used")),
           Http(503, NoData) })

CollideTokenScripts ==
  Direct({ Http(200, [Json("") EXCEPT !.token = "jwt"]),
           Http(500, Json("Internal Server Error")) })

NextCollide ==
  \/ \E p \in Single : ProvisionStart(p)
  \/ \E p \in Single : GadResponse(p, Direct({ Http(200, Members(BigCatalog)) }))
  \/ \E p \in Single : AfterPreferred(p)
  \/ \E p \in Single : BuildTrial(p)
  \/ \E p \in Single : CreateResponse(p, CollideAccountScripts)
  \/ \E p \in Single : TokenResponse(p, CollideTokenScripts)
  \/ \E p \in Single : Return(p)

SpecCollide == InitTrial /\ [][NextCollide]_vars

\* SpecExplicit: one call after another, each naming a domain
ExplicitTokenScripts ==
  Scripts(TokenAnswers \cup {Http(400, Json("Bad Request"))})

NextExplicit ==
  \/ Tick
  \/ \E p \in Single : ExplicitStart(p)
  \/ \E p \in Single : GadResponse(p, DomainScripts)
  \/ \E p \in Single : ExplicitResolve(p)
  \/ \E p \in Single : ExplicitCreateResponse(p, AccountScripts)
  \/ \E p \in Single : ExplicitTokenResponse(p, ExplicitTokenScripts)
  \/ \E p \in Single : Return(p)

SpecExplicit == Init /\ [][NextExplicit]_vars

\* SpecRegistry: the registry's requests and the sweep, while the clock runs
RegistryDomainScripts ==
  Direct({ Http(200, Members(<< ObjEntry("alpha.net") >>)) })

RegistryAccountScripts ==
  Direct({ Http(201, [Json("") EXCEPT !.id = "acc"]),
           Http(429, Json("Too Many Requests")) })

RegistryTokenScripts ==
  Direct({ Http(200, [Json("") EXCEPT !.token = "jwt"]), Http(200, Json("")),
           Http(500, Json("Internal Server Error")) })

NextRegistry ==
  \/ Elapse
  \/ Quiet /\ Sweep
  \/ \E mailboxId \in MailboxIds : Quiet /\ Get(mailboxId)
  \/ \E mailboxId \in MailboxIds : Quiet /\ Extend(mailboxId)
  \/ \E p \in Single : CreateStart(p)
  \/ \E p \in Single : GadResponse(p, RegistryDomainScripts)
  \/ \E p \in Single : AfterPreferred(p)
  \/ \E p \in Single : BuildTrial(p)
  \/ \E p \in Single : CreateResponse(p, RegistryAccountScripts)
  \/ \E p \in Single : TokenResponse(p, RegistryTokenScripts)
  \/ \E p \in Single : CreateMailbox(p)

SpecRegistry == Init /\ [][NextRegistry]_vars

\* SpecLookup: one mailbox is looked up by get, extend and fetchMessages,
\* its inbox holding one message, while the clock runs
LookupListScripts ==
  Direct({ Http(200, Members(Inbox(1))), Http(401, Json("Invalid JWT Token")) })

NextLookup ==
  \/ Elapse
  \/ Sweep
  \/ \E mailboxId \in MailboxIds : Get(mailboxId)
  \/ \E mailboxId \in MailboxIds : Extend(mailboxId)
  \/ \E f \in OneFetcher : \E mailboxId \in MailboxIds : FetchStart(f, mailboxId)
  \/ \E f \in OneFetcher : FetchAuth(f, RegistryTokenScripts)
  \/ \E f \in OneFetcher : FetchList(f, LookupListScripts)
  \/ \E f \in OneFetcher : FetchDetails(f)
  \/ \E f \in OneFetcher : FetchReturn(f)
  \/ \E p \in Single : reg.issued = 0 /\ CreateStart(p)
  \/ \E p \in Single : GadResponse(p, RegistryDomainScripts)
  \/ \E p \in Single : AfterPreferred(p)
  \/ \E p \in Single : BuildTrial(p)
  \/ \E p \in Single : CreateResponse(p, RegistryAccountScripts)
  \/ \E p \in Single : TokenResponse(p, RegistryTokenScripts)
  \/ \E p \in Single : CreateMailbox(p)

SpecLookup == Init /\ [][NextLookup]_vars

\* SpecMessages: the messages of one mailbox are fetched, while the clock
\* runs and the sweep may remove the mailbox
NextMessages ==
  \/ Elapse
  \/ Sweep
  \/ \E f \in OneFetcher : \E mailboxId \in MailboxIds : FetchStart(f, mailboxId)
  \/ \E f \in OneFetcher : FetchAuth(f, RegistryTokenScripts)
  \/ \E f \in OneFetcher : FetchList(f, Direct(ListAnswers))
  \/ \E f \in OneFetcher : FetchDetails(f)
  \/ \E f \in OneFetcher : FetchReturn(f)
  \/ \E p \in Single : reg.issued = 0 /\ CreateStart(p)
  \/ \E p \in Single : GadResponse(p, RegistryDomainScripts)
  \/ \E p \in Single : AfterPreferred(p)
  \/ \E p \in Single : BuildTrial(p)
  \/ \E p \in Single : CreateResponse(p, RegistryAccountScripts)
  \/ \E p \in Single : TokenResponse(p, RegistryTokenScripts)
  \/ \E p \in Single : CreateMailbox(p)

SpecMessages == Init /\ [][NextMessages]_vars

\* SpecToken: the messages of one mailbox are fetched by requests that may
\* overlap, while the clock runs (one step fewer than elsewhere); a token
\* lives for a minute or for the default hour
TokenRefreshScripts ==
  Direct({ Http(200, [Json("") EXCEPT !.token = "jwt", !.refresh_token = "r1",
                                      !.expires_in = 60]),
           Http(200, [Json("") EXCEPT !.token = "jwt2"]),
           Http(200, NoData) })

TokenListScripts == Direct({ Http(200, Members(Inbox(1))) })

NextToken ==
  \/ reg.elapses < MaxElapses - 1 /\ Elapse
  \/ \E f \in Fetchers : \E mailboxId \in MailboxIds : FetchStart(f, mailboxId)
  \/ \E f \in Fetchers : FetchAuth(f, TokenRefreshScripts)
  \/ \E f \in Fetchers : FetchList(f, TokenListScripts)
  \/ \E f \in Fetchers : FetchDetails(f)
  \/ \E f \in Fetchers : FetchReturn(f)
  \/ \E p \in Single : reg.issued = 0 /\ CreateStart(p)
  \/ \E p \in Single : GadResponse(p, RegistryDomainScripts)
  \/ \E p \in Single : AfterPreferred(p)
  \/ \E p \in Single : BuildTrial(p)
  \/ \E p \in Single : CreateResponse(p, RegistryAccountScripts)
  \/ \E p \in Single : TokenResponse(p, TokenRefreshScripts)
  \/ \E p \in Single : CreateMailbox(p)

SpecToken == Init /\ [][NextToken]_vars

\* SpecReorder: the ordering of domainsToTry applied to a list of domain
\* strings and to a permutation of it, then to its own output
ReorderNames == {"mail.tm", "Mail.TM", "ekii.de", "doer.sbs", "zeta.org", "alpha.net"}

Lists(names, n) == UNION { [1..k -> names] : k \in 0..n }

Rearrangements(list) ==
  LET n == Len(list)
      Bijections == { f \in [1..n -> 1..n] : \A a, b \in 1..n : a # b => f[a] # f[b] }
  IN  { [i \in 1..n |-> list[f[i]]] : f \in Bijections }

InitReorder ==
  /\ Engine
  /\ \E list \in Lists(ReorderNames, MaxListLen) :
       \E permuted \in Rearrangements(list) :
         fn = [IdleFn EXCEPT !.phase = "input", !.input = list, !.permuted = permuted]

Reorder ==
  /\ fn.phase = "input"
  /\ fn' = [fn EXCEPT !.phase = "once",
                      !.output = reorderDomains(fn.input),
                      !.outputPermuted = reorderDomains(fn.permuted)]
  /\ UNCHANGED <<explicit, mailboxes, heap, reg, now, domainRotationIndex,
                 cachedDomains, pc, gad, call, result, obs>>

ReorderAgain ==
  /\ fn.phase = "once"
  /\ fn' = [fn EXCEPT !.phase = "twice", !.again = reorderDomains(fn.output)]
  /\ UNCHANGED <<explicit, mailboxes, heap, reg, now, domainRotationIndex,
                 cachedDomains, pc, gad, call, result, obs>>

NextReorder ==
  \/ Reorder
  \/ ReorderAgain

SpecReorder == InitReorder /\ [][NextReorder]_vars

\* SpecRequest: one logical upstream request, over every sequence of answers
\* to its HTTP attempts (one answer more than the attempts it may make)
RequestAnswers ==
  { Http(200, Json("")), Http(204, NoData), Http(404, NoData),
    Http(429, Json("Too Many Requests")), Http(500, Json("Internal Server Error")),
    Http(503, NoData), NetFailure }

RequestScripts == [1..(maxRetries + 2) -> RequestAnswers]

InitRequest ==
  /\ Engine
  /\ \E script \in RequestScripts :
       fn = [IdleFn EXCEPT !.phase = "script", !.input = script]

\* the request is sent and settles
SendRequest ==
  /\ fn.phase = "script"
  /\ fn' = [fn EXCEPT !.phase = "settled", !.output = mailTmRequest(fn.input)]
  /\ UNCHANGED <<explicit, mailboxes, heap, reg, now, domainRotationIndex,
                 cachedDomains, pc, gad, call, result, obs>>

NextRequest ==
  \/ SendRequest

SpecRequest == InitRequest /\ [][NextRequest]_vars

\* SpecFailure: a response that is not ok and is not retried, over every
\* status and body shape; mailTmRequest throws its error and the error
\* handler answers the client with it
InitFailure ==
  /\ Engine
  /\ \E status \in FailureStatuses : \E body \in ErrorBodies :
       fn = [IdleFn EXCEPT !.phase = "response",
                           !.input = [status |-> status, body |-> body]]

\* mailTmRequest throws
ThrowFailure ==
  /\ fn.phase = "response"
  /\ fn' = [fn EXCEPT
              !.phase = "thrown",
              !.output = [status |-> fn.input.status,
                          message |-> messageFromRemote(fn.input.status, fn.input.body)]]
  /\ UNCHANGED <<explicit, mailboxes, heap, reg, now, domainRotationIndex,
                 cachedDomains, pc, gad, call, result, obs>>

\* the route passes the error to the error handler
HandleFailure ==
  /\ fn.phase = "thrown"
  /\ fn' = [fn EXCEPT !.phase = "handled", !.again = errorHandler(fn.output)]
  /\ UNCHANGED <<explicit, mailboxes, heap, reg, now, domainRotationIndex,
                 cachedDomains, pc, gad, call, result, obs>>

NextFailure ==
  \/ ThrowFailure
  \/ HandleFailure

SpecFailure == InitFailure /\ [][NextFailure]_vars

\* ------------------------------------------------------------------------
\* Properties
\* ------------------------------------------------------------------------
\* a Case B call that has ended after building a non-empty candidate list
EndedCaseB(p) ==
  /\ pc[p] = "done"
  /\ obs[p].built
  /\ obs[p].length > 0
  /\ (result[p].kind = "credential" \/ obs[p].exhausted)

\* C1: when the first k domains of a Case B trial sequence each answer the
\* account creation with 429 and the (k+1)-th accepts creation and
\* authentication, the call returns a credential on the (k+1)-th domain of
\* the trial sequence and has counted exactly k domains as rate-limited.
C1_RateLimitedPrefix ==
  \A p \in Procs :
    (pc[p] = "done" /\ result[p].kind = "credential" /\ obs[p].rate429 # NaN)
      => /\ result[p].domain =
              obs[p].candidates[((obs[p].cursorAt + obs[p].rate429) % obs[p].length) + 1]
         /\ call[p].rateLimitedDomains = obs[p].rate429

C1_Witness ==
  \E p \in Procs :
    /\ pc[p] = "done"
    /\ result[p].kind = "credential"
    /\ obs[p].rate429 = 2
    /\ obs[p].length = 3

\* C2: a single rotation pick over a candidate list of length L > 0 with the
\* cursor at C returns candidates[C mod L] and leaves the cursor at
\* (C + 1) mod L.
C2_PickRotates ==
  \A p \in Procs :
    (pc[p] = "done" /\ result[p].kind = "domain")
      => /\ obs[p].length > 0
         /\ result[p].domain =
              obs[p].candidates[(obs[p].cursorAt % obs[p].length) + 1]
         /\ obs[p].cursorAfter = (obs[p].cursorAt + 1) % obs[p].length

\* the pick found the cursor beyond the end of its (shorter) candidate list
C2_Witness ==
  \E p \in Procs :
    /\ pc[p] = "done"
    /\ result[p].kind = "domain"
    /\ obs[p].length = 2
    /\ obs[p].cursorAt = 2
    /\ obs[p].cursorAfter = 1

\* C3: every index used to read a candidate list lies within 0..L-1 for the
\* length L of that list, and the first one is the cursor modulo L, also when
\* calls with lists of different lengths are in flight together and the
\* cursor was last written for a longer list.
C3_IndexInRange ==
  \A p \in Procs :
    \A i \in 1..Len(obs[p].reads) :
      /\ obs[p].length > 0
      /\ obs[p].reads[i] \in 0..(obs[p].length - 1)
      /\ obs[p].reads[1] = obs[p].cursorAt % obs[p].length

\* two calls in flight over lists of different lengths, one of which found
\* the cursor beyond the end of its list
C3_Witness ==
  \E p, q \in Procs :
    /\ p # q
    /\ pc[p] \in {"create_wait", "token_wait"}
    /\ pc[q] \in {"create_wait", "token_wait"}
    /\ obs[p].length < obs[q].length
    /\ obs[p].cursorAt >= obs[p].length
    /\ Len(obs[p].reads) > 1

\* C4: a rotation query over an empty candidate set fails with an error,
\* reads no element of the list (and computes no index), and leaves the
\* cursor as it found it.
C4_EmptyCandidates ==
  \A p \in Procs :
    (pc[p] = "done" /\ obs[p].built /\ obs[p].length = 0)
      => /\ result[p].kind = "error"
         /\ obs[p].reads = <<>>
         /\ obs[p].advances = 0
         /\ obs[p].cursorAfter = obs[p].cursorAt

C4_Witness ==
  \E p \in Procs :
    /\ pc[p] = "done"
    /\ obs[p].built
    /\ obs[p].length = 0
    /\ result[p].kind = "error"
    /\ domainRotationIndex > 0

\* C5: the trial sequence of a Case B call starts at (cursor mod L), goes on
\* circularly, tries no list position twice and, when the call exhausts it,
\* has exactly min(L, 15) entries.
C5_TrialSequence ==
  \A p \in Procs :
    LET L == obs[p].length
        reads == obs[p].reads
    IN  /\ Len(reads) <= Min(L, 15)
        /\ \A i \in 1..Len(reads) :
             reads[i] = ((obs[p].cursorAt % L) + (i - 1)) % L
        /\ \A i, j \in 1..Len(reads) : i # j => reads[i] # reads[j]
        /\ obs[p].exhausted => Len(reads) = Min(L, 15)

\* an exhausted call over a list longer than the cap, whose sequence wrapped
C5_Witness ==
  \E p \in Procs :
    /\ obs[p].exhausted
    /\ obs[p].length > 15
    /\ Len(obs[p].reads) = 15
    /\ obs[p].reads[1] > obs[p].reads[15]

\* C6: every Case B call with a non-empty candidate list writes the cursor
\* exactly once, advancing it by 1 modulo the length of its list.
C6_AdvancesOnce ==
  \A p \in Procs : EndedCaseB(p) => obs[p].advances = 1

\* C7: when the catalog request fails and the cache holds a non-empty list,
\* getAvailableDomains returns the cached items and does not throw, however
\* long ago the cache expired.
C7_StaleCacheServed ==
  \A p \in Procs :
    (pc[p] = "gad_ret" /\ gad[p].fetch = "failed"
       /\ Len(gad[p].cacheAtFetch.items) > 0)
      => /\ ~gad[p].threw
         /\ gad[p].items = gad[p].cacheAtFetch.items
         /\ gad[p].cacheAfterFetch = gad[p].cacheAtFetch

\* the failed request was sent a tick or more after the cache had expired
C7_Witness ==
  \E p \in Procs :
    /\ pc[p] = "gad_ret"
    /\ gad[p].fetch = "failed"
    /\ Len(gad[p].cacheAtFetch.items) > 0
    /\ gad[p].at >= gad[p].cacheAtFetch.expiresAt + TickMs
    /\ ~gad[p].threw

\* C8: when the catalog request fails and the cache holds no list,
\* getAvailableDomains throws the failure (it returns no list) and leaves the
\* cache empty.
C8_NoCacheRaises ==
  \A p \in Procs :
    (pc[p] = "gad_ret" /\ gad[p].fetch = "failed"
       /\ Len(gad[p].cacheAtFetch.items) = 0)
      => /\ gad[p].threw
         /\ gad[p].items = <<>>
         /\ gad[p].error.name \in {"Error", "TypeError"}
         /\ gad[p].cacheAfterFetch = gad[p].cacheAtFetch
         /\ Len(gad[p].cacheAfterFetch.items) = 0

\* the request failed before any list was ever cached
C8_Witness ==
  \E p \in Procs :
    /\ pc[p] = "gad_ret"
    /\ gad[p].fetch = "failed"
    /\ gad[p].cacheAtFetch = EmptyCache
    /\ gad[p].threw
    /\ cachedDomains = EmptyCache

\* C9: once the domain cache holds a non-empty list, no later outcome of a
\* catalog request makes the cached items empty again.
C9_CacheStaysPopulated ==
  [][Len(cachedDomains.items) > 0 => Len(cachedDomains'.items) > 0]_vars

\* the order the chain of moves leaves the named priority domains in
PriorityOrder ==
  << "mail.tm", "elyxstore.com", "ketoblisslabs.com", "ekii.de", "doer.sbs",
     "asia-mail.com", "besenica.com", "badfist.com", "comfythings.com" >>

IsPriority(d) == includes(PriorityOrder, toLowerCase(d))

\* C10: the reordering is idempotent (applied to its own output it yields
\* the same order), gives the same output for two inputs that are
\* permutations of each other, and puts every named priority domain of the
\* input before every other domain, the priority domains in one fixed
\* relative order.
C10_ReorderDeterministic ==
  fn.phase = "twice"
    => /\ fn.again = fn.output
       /\ fn.outputPermuted = fn.output
       /\ \A i, j \in 1..Len(fn.output) :
            (i < j /\ IsPriority(fn.output[j])) =>
              /\ IsPriority(fn.output[i])
              /\ indexOf(PriorityOrder, toLowerCase(fn.output[i]))
                   <= indexOf(PriorityOrder, toLowerCase(fn.output[j]))

\* the same for lists that name no domain twice (in any letter case)
NoRepeat(list) ==
  \A i, j \in 1..Len(list) : i # j => toLowerCase(list[i]) # toLowerCase(list[j])

ReorderOfDistinct == NoRepeat(fn.input) => C10_ReorderDeterministic

ReorderOfDistinctWitness ==
  /\ fn.phase = "twice"
  /\ NoRepeat(fn.input)
  /\ Len(fn.input) = 3
  /\ fn.permuted # fn.input
  /\ fn.output # fn.input
  /\ \E i \in 1..3 : IsPriority(fn.input[i])
  /\ \E i \in 1..3 : ~IsPriority(fn.input[i])

\* no entry of the list equals the name, letter case apart
NoMatch(list, name) ==
  \A i \in 1..Len(list) : toLowerCase(list[i]) # toLowerCase(name)

\* the call failed with the 422 error that lists the domain strings
FailedUnknownDomain(p) ==
  /\ result[p].kind = "error"
  /\ result[p].error.status = 422
  /\ "availableDomains" \in DOMAIN result[p].error
  /\ result[p].error.availableDomains = explicit[p].domainStrings
  /\ explicit[p].creates = 0
  /\ explicit[p].tokens = 0

\* C11: a call that names a domain with no case-insensitive exact match in
\* the catalog fails with a 422 error carrying the full list of available
\* domain strings, and no account or token request has been sent.
C11_UnknownDomain ==
  \A p \in Procs :
    (/\ pc[p] = "done"
     /\ explicit[p].resolved
     /\ NoMatch(explicit[p].domainStrings, explicit[p].preferredDomain))
    => FailedUnknownDomain(p)

\* C11, amended: the same, for a catalog that holds at least one domain
\* string.
C11_UnknownDomainListed ==
  \A p \in Procs :
    (/\ pc[p] = "done"
     /\ explicit[p].resolved
     /\ Len(explicit[p].domainStrings) > 0
     /\ NoMatch(explicit[p].domainStrings, explicit[p].preferredDomain))
    => FailedUnknownDomain(p)

C11_Witness ==
  \E p \in Procs :
    /\ pc[p] = "done"
    /\ explicit[p].resolved
    /\ explicit[p].preferredDomain = "unknown.example"
    /\ Len(explicit[p].domainStrings) >= 3
    /\ result[p].error.status = 422

\* C12: in Case A an account creation that fails with a status outside
\* {400, 409, 422} (429, 5xx after the client's retries, no status at all)
\* ends the call: the error is what the call throws and no account request
\* follows it.
C12_ExplicitAborts ==
  \A p \in Procs :
    /\ ~explicit[p].fatalBefore
    /\ (explicit[p].last.from = "accounts"
        /\ explicit[p].last.status \notin {400, 409, 422}) =>
         /\ pc[p] = "done"
         /\ result[p].kind = "error"
         /\ result[p].error.status = explicit[p].last.status
         /\ result[p].error.name = explicit[p].last.name
         /\ explicit[p].creates = explicit[p].attempt + 1

\* a 429 on the second attempt ended the call
C12_Witness ==
  \E p \in Procs :
    /\ pc[p] = "done"
    /\ explicit[p].last.from = "accounts"
    /\ explicit[p].last.status = 429
    /\ explicit[p].creates = 2

\* C13: in Case A at most 5 account requests are sent; when 5 attempts have
\* failed with a status in {400, 409, 422} the call has failed with the
\* allocation error.
C13_ExplicitAtMostFive ==
  \A p \in Procs :
    /\ explicit[p].creates <= 5
    /\ (explicit[p].failed = 5 /\ explicit[p].collisions = 5) =>
         /\ pc[p] = "done"
         /\ result[p].kind = "error"
         /\ result[p].error = PlainError("Unable to allocate mailbox at this time")

C13_Witness ==
  \E p \in Procs :
    /\ pc[p] = "done"
    /\ explicit[p].creates = 5
    /\ explicit[p].failed = 5
    /\ explicit[p].collisions = 5
    /\ explicit[p].last.status = 409

FifteenMinutes == 15 * 60 * 1000

\* C16: extend on a live mailbox sets expiresAt to exactly the time of the
\* call + 15 minutes, whatever expiresAt was before: the lifetime that is
\* left never exceeds 15 minutes.
C16_ExtendResetsExpiry ==
  LET l == reg.last
  IN  l.op = "extend" =>
        /\ (l.found /\ l.at <= l.expiresBefore) => l.status = 200
        /\ l.status = 200 =>
             /\ l.id \in mailboxes
             /\ heap[l.id].expiresAt = l.at + FifteenMinutes
             /\ heap[l.id].expiresAt - now <= FifteenMinutes

\* a mailbox that had been extended before is extended with 1 minute left
C16_Witness ==
  LET l == reg.last
  IN  /\ l.op = "extend"
      /\ l.status = 200
      /\ l.expiresBefore - l.at = 60 * 1000
      /\ l.expiresBefore > heap[l.id].createdAt + FifteenMinutes
      /\ heap[l.id].expiresAt = l.at + FifteenMinutes

\* C17: a get, extend or fetchMessages on a mailbox whose expiresAt has
\* passed removes it from the registry and fails with status 410; every
\* later get, extend or fetchMessages with the same id fails with status 404.
C17_ExpiredThenNotFound ==
  LET l == reg.last
  IN  l.op \in {"get", "extend", "messages"} =>
        /\ (l.found /\ l.at > l.expiresBefore) =>
             (l.status = 410 /\ l.id \notin mailboxes)
        /\ l.wasGone => (l.status = 404 /\ l.id \notin mailboxes)

\* fetchMessages on an id that was answered Expired before
C17_Witness ==
  LET l == reg.last
  IN  /\ l.op = "messages"
      /\ l.wasGone
      /\ l.status = 404

\* the ids of the messages whose detail request was fulfilled, in listing order
RECURSIVE FulfilledIds(_, _)
FulfilledIds(members, settled) ==
  IF members = <<>> THEN <<>>
  ELSE IF Head(settled).status = "fulfilled"
       THEN <<Head(members).id>> \o FulfilledIds(Tail(members), Tail(settled))
       ELSE FulfilledIds(Tail(members), Tail(settled))

\* C18: after a successful listing of n summaries, whatever subset of the n
\* detail requests fails, fetchMessages returns without error the messages
\* whose detail request succeeded, in listing order, and the mailbox's
\* lastMessageCount is the number of messages returned.
C18_PartialSuccess ==
  LET f == reg.fetch["f1"]
  IN  (f.pc = "done" /\ f.listed) =>
        /\ ~f.threw
        /\ f.returned = FulfilledIds(f.members, f.settled)
        /\ heap[f.id].lastMessageCount = Len(f.returned)

\* the same, when every fulfilled detail request carried a JSON body
PartialSuccessOfJson ==
  LET f == reg.fetch["f1"]
  IN  (/\ f.pc = "done"
       /\ f.listed
       /\ \A i \in 1..Len(f.settled) :
            f.settled[i].status = "fulfilled" => f.settled[i].json) =>
        /\ ~f.threw
        /\ f.returned = FulfilledIds(f.members, f.settled)
        /\ heap[f.id].lastMessageCount = Len(f.returned)

PartialSuccessOfJsonWitness ==
  LET f == reg.fetch["f1"]
  IN  /\ f.pc = "done"
      /\ Len(f.members) = 3
      /\ f.returned = << "m1", "m3" >>

\* C19: after a run of the sweep the registry holds no mailbox whose
\* expiresAt is earlier than the sweep's time, and every mailbox whose
\* expiresAt is not earlier is still there, unmodified.
C19_SweepRemovesExpired ==
  LET l == reg.last
  IN  l.op = "sweep" =>
        /\ \A id \in mailboxes : heap[id].expiresAt >= l.at
        /\ mailboxes \subseteq l.keysBefore
        /\ \A id \in l.keysBefore :
             l.heapBefore[id].expiresAt >= l.at =>
               (id \in mailboxes /\ heap[id] = l.heapBefore[id])

\* a sweep removed one mailbox and kept one that expires at the sweep's time
C19_Witness ==
  LET l == reg.last
  IN  /\ l.op = "sweep"
      /\ l.keysBefore \ mailboxes # {}
      /\ \E id \in mailboxes : heap[id].expiresAt = l.at

\* C20: create adds exactly one mailbox, under an id that was not a key,
\* with expiresAt = createdAt + 15 minutes and lastMessageCount = 0, once
\* provisioning has succeeded; when provisioning fails the registry is as it
\* was.
C20_CreateAddsOne ==
  LET l == reg.last
  IN  l.op = "create" =>
        IF l.status = 201
        THEN /\ l.id \notin l.keysBefore
             /\ l.heapBefore[l.id] = NoMailbox
             /\ mailboxes = l.keysBefore \cup {l.id}
             /\ heap[l.id].createdAt = l.at
             /\ heap[l.id].expiresAt = heap[l.id].createdAt + FifteenMinutes
             /\ heap[l.id].lastMessageCount = 0
             /\ \A id \in MailboxIds \ {l.id} : heap[id] = l.heapBefore[id]
        ELSE /\ mailboxes = l.keysBefore
             /\ heap = l.heapBefore

\* a second mailbox is created some time after the first
C20_Witness ==
  LET l == reg.last
  IN  /\ l.op = "create"
      /\ l.status = 201
      /\ l.keysBefore # {}
      /\ l.at > 0

\* a create failed while a mailbox was in the registry
C20_FailedWitness ==
  LET l == reg.last
  IN  /\ l.op = "create"
      /\ l.status # 201
      /\ mailboxes # {}

\* the answer to an attempt lets the client try again
Retriable(answer) == answer.net \/ answer.status >= 500

\* C15: one logical upstream request performs at most 4 HTTP attempts (1
\* initial + 3 retries); an attempt is followed by another only when it was
\* answered by a 5xx response or failed on the network or the timeout, and
\* a 4xx response is surfaced to the caller by the attempt that received it.
C15_AttemptsBounded ==
  fn.phase = "settled" =>
    LET script == fn.input
        attempts == fn.output.retries + 1
        last == script[attempts]
    IN  /\ attempts <= maxRetries + 1
        /\ \A i \in 1..(attempts - 1) : Retriable(script[i])
        /\ (~last.net /\ last.status \in 400..499) =>
             /\ ~fn.output.ok
             /\ fn.output.status = last.status
        /\ (~last.net /\ last.status \in 200..299) => fn.output.ok
        /\ Retriable(last) => (attempts = maxRetries + 1 /\ ~fn.output.ok)

\* three failed attempts, then a 4xx on the fourth
C15_Witness ==
  /\ fn.phase = "settled"
  /\ fn.output.retries = maxRetries
  /\ fn.output.status = 429
  /\ fn.input[1].net
  /\ fn.input[2].status = 503
\* C21: whenever an upstream request finally fails with a status >= 500, the
\* message of the error mailTmRequest throws, and the message the error
\* handler sends to the client for that error, is one of the two fixed
\* sentences, for every body shape; the handler answers with the status of
\* the error.
C21_FixedSentences ==
  (fn.phase \in {"thrown", "handled"} /\ fn.input.status >= 500)
    => /\ fn.output.message \in {ServiceError, Unavailable}
       /\ fn.phase = "handled"
            => /\ fn.again.error = fn.output.message
               /\ fn.again.status = fn.input.status

\* a 503 whose JSON body carries a detail with an ID, answered to the client
C21_Witness ==
  /\ fn.phase = "handled"
  /\ fn.input.status = 503
  /\ fn.input.body.json
  /\ fn.input.body.detail = "Error ID: 7f3a"
  /\ fn.again.error = ServiceError

\* a step in which the catch block of the trial loop ran for p
CaughtStep(p) ==
  /\ pc[p] \in {"create_wait", "token_wait"}
  /\ obs'[p].failures = obs[p].failures + 1

\* the domain at position domainOffset of p's trial sequence
TrialDomain(p, domainOffset) ==
  obs[p].candidates[(((obs[p].cursorAt % obs[p].length) + domainOffset)
                       % obs[p].length) + 1]

\* C22: in Case B, after the account creation (or the authentication that
\* follows it) failed on a domain with any error other than a 400 or a 409 (a
\* status >= 500, a 429, a rate-limit-flavoured 422, any other status or
\* none), no further account request is sent for that entry of the trial
\* sequence: the next request goes to the next entry with the attempt counter
\* at 0, or the sequence is exhausted; the loop never goes back to an entry.
C22_OtherFailuresMoveOn ==
  [][\A p \in Procs :
       /\ (CaughtStep(p) /\ obs'[p].last # "collision")
            => IF call[p].domainOffset + 1 < Min(obs[p].length, 15)
               THEN /\ pc'[p] = "create_wait"
                    /\ call'[p].domainOffset = call[p].domainOffset + 1
                    /\ call'[p].attempt = 0
                    /\ call'[p].domain = TrialDomain(p, call[p].domainOffset + 1)
                    /\ obs'[p].creates = obs[p].creates + 1
               ELSE /\ pc'[p] = "done"
                    /\ obs'[p].exhausted
                    /\ obs'[p].creates = obs[p].creates
       /\ (pc[p] \in {"create_wait", "token_wait"}
             /\ pc'[p] \in {"create_wait", "token_wait"})
            => call'[p].domainOffset >= call[p].domainOffset
  ]_vars

\* three entries were left after one failed request each, the last of them
\* rate-limited
C22_Witness ==
  \E p \in Procs :
    /\ pc[p] = "create_wait"
    /\ obs[p].last = "limited"
    /\ obs[p].failures = 3
    /\ obs[p].creates = 4
    /\ call[p].domainOffset = 3
    /\ call[p].attempt = 0

\* C23: in Case B a 400 or 409 on the first attempt on a domain is followed
\* by a second account request for the same domain with a local-part of its
\* own; no entry of the trial sequence gets more than 2 account requests, and
\* one call sends at most 2 * min(L, 15) of them.
C23_CollisionRetriedOnce ==
  /\ [](\A p \in Procs :
          /\ pc[p] \in {"create_wait", "token_wait"}
               => /\ call[p].attempt < 2
                  /\ obs[p].creates <= 2 * call[p].domainOffset + call[p].attempt + 1
          /\ obs[p].creates <= 2 * Min(obs[p].length, 15))
  /\ [][\A p \in Procs :
          (CaughtStep(p) /\ obs'[p].last = "collision" /\ call[p].attempt = 0)
            => /\ pc'[p] = "create_wait"
               /\ call'[p].domainOffset = call[p].domainOffset
               /\ call'[p].domain = call[p].domain
               /\ call'[p].attempt = 1
               /\ obs'[p].creates = obs[p].creates + 1
     ]_vars

\* every one of the 15 domains tried of a catalog of 17 collided twice
C23_Witness ==
  \E p \in Procs :
    /\ obs[p].exhausted
    /\ obs[p].length = 17
    /\ obs[p].creates = 30
    /\ obs[p].last = "collision"

RateLimitedMessage ==
  "Unable to allocate mailbox. All domains are currently rate-limited. Please wait a few seconds and try again."

GeneralMessage ==
  "Unable to allocate mailbox at this time. The email service may be temporarily unavailable. Please try again in a few moments."

\* C24: a Case B call that exhausts its trial sequence throws the
\* "rate-limited" message exactly when the domains it counted as rate-limited
\* are at least trialCount - 2, and the "general unavailability" message
\* otherwise; the count rises by one exactly when a rate-limit failure is
\* caught, the entry is left at once, and so no entry is counted twice.
C24_ExhaustedMessage ==
  /\ [](\A p \in Procs :
          /\ (pc[p] = "done" /\ obs[p].exhausted)
               => /\ result[p].kind = "error"
                  /\ result[p].error.status = NoStatus
                  /\ result[p].error.data.detail =
                       IF call[p].rateLimitedDomains >= Min(obs[p].length, 15) - 2
                       THEN RateLimitedMessage
                       ELSE GeneralMessage
          /\ call[p].rateLimitedDomains <= call[p].domainOffset)
  /\ [][\A p \in Procs :
          pc[p] \in {"create_wait", "token_wait"}
            => /\ call'[p].rateLimitedDomains =
                    IF CaughtStep(p) /\ obs'[p].last = "limited"
                    THEN call[p].rateLimitedDomains + 1
                    ELSE call[p].rateLimitedDomains
               /\ call'[p].rateLimitedDomains > call[p].rateLimitedDomains
                    => call'[p].domainOffset = call[p].domainOffset + 1
     ]_vars

\* five domains tried, three of them counted: the rate-limited message at its
\* threshold
C24_Witness ==
  \E p \in Procs :
    /\ pc[p] = "done"
    /\ obs[p].exhausted
    /\ obs[p].length = 5
    /\ call[p].rateLimitedDomains = 3
    /\ result[p].error.data.detail = RateLimitedMessage

\* five domains tried, two of them counted: the general message
C24_GeneralWitness ==
  \E p \in Procs :
    /\ pc[p] = "done"
    /\ obs[p].exhausted
    /\ obs[p].length = 5
    /\ call[p].rateLimitedDomains = 2
    /\ result[p].error.data.detail = GeneralMessage

\* C25: the candidate list of a trial sequence holds each domain at most
\* once under case-insensitive comparison, whatever the catalog lists.
C25_DistinctCandidates ==
  \A p \in Procs :
    obs[p].built
      => \A i, j \in 1..Len(obs[p].candidates) :
           i # j => toLowerCase(obs[p].candidates[i]) # toLowerCase(obs[p].candidates[j])

\* C26: while the cache is non-empty and its expiresAt lies in the future,
\* getAvailableDomains returns the cached items without a request; a call at
\* or after expiresAt sends a request, and a successful one sets expiresAt to
\* 10 minutes after the time the call started.  (Calls one after another: the
\* cache is as the call found it until its request settles.)
C26_CacheUntilExpiry ==
  \A p \in Procs :
    /\ (pc[p] = "gad_ret" /\ gad[p].fetch = "none")
         => /\ Len(cachedDomains.items) > 0
            /\ cachedDomains.expiresAt > gad[p].at
            /\ gad[p].items = cachedDomains.items
            /\ ~gad[p].threw
    /\ pc[p] = "gad_wait"
         => (Len(cachedDomains.items) = 0 \/ gad[p].at >= cachedDomains.expiresAt)
    /\ (pc[p] = "gad_ret" /\ gad[p].fetch = "ok")
         => /\ cachedDomains.expiresAt = gad[p].at + 10 * 60 * 1000
            /\ cachedDomains.items = gad[p].items

\* a call made at the very time a non-empty cache expired has refreshed it,
\* the clock having moved on while its request was in flight
C26_Witness ==
  \E p \in Procs :
    /\ pc[p] = "gad_ret"
    /\ gad[p].fetch = "ok"
    /\ Len(gad[p].cacheAtFetch.items) > 0
    /\ gad[p].at = gad[p].cacheAtFetch.expiresAt
    /\ now > gad[p].at

\* a call served from the cache one tick before it expires
C26_ServedWitness ==
  \E p \in Procs :
    /\ pc[p] = "gad_ret"
    /\ gad[p].fetch = "none"
    /\ cachedDomains.expiresAt = gad[p].at + TickMs

\* C27: fetchMessages sends a /token request for a mailbox exactly when the
\* stored token is absent or the time is not before tokenExpiresAt; when the
\* request succeeds, the mailbox's token, refreshToken and tokenExpiresAt are
\* those of that one response (the lifetime counted from the time it
\* arrived), and the call's listing and detail requests carry that token.
C27_TokenRefreshedWhenDue ==
  [][\A f \in Fetchers :
       LET before == reg.fetch[f]
           after == reg'.fetch[f]
       IN  /\ (before.pc = "idle" /\ after.pc # "idle")
                => LET mailbox == heap[after.id]
                   IN  /\ after.pc = "auth_wait"
                            <=> (mailbox.token = Undefined
                                 \/ ~(now < mailbox.tokenExpiresAt))
                       /\ after.pc # "auth_wait"
                            => (after.pc = "list_wait" /\ after.token = mailbox.token)
           /\ (before.pc = "auth_wait" /\ after.pc = "list_wait")
                => LET mailbox == heap'[before.id]
                       answer == after.answer
                   IN  /\ mailbox.token = answer.token
                       /\ mailbox.refreshToken =
                            IF answer.refresh_token # Undefined
                            THEN answer.refresh_token ELSE Null
                       /\ mailbox.tokenExpiresAt =
                            now + (IF answer.expires_in # 0 THEN answer.expires_in
                                   ELSE 3600) * 1000
                       /\ after.token = answer.token
           /\ (before.pc \in {"list_wait", "detail_wait"} /\ after.pc # "idle")
                => after.token = before.token
  ]_vars

\* a token that lived a minute was replaced, a minute or more after the
\* mailbox was created, by one without a refresh token, and the call is
\* fetching the details with the new one
C27_Witness ==
  \E f \in Fetchers :
    LET frame == reg.fetch[f]
    IN  /\ frame.pc = "detail_wait"
        /\ frame.answer.token = "jwt2"
        /\ frame.token = "jwt2"
        /\ heap[frame.id].refreshToken = Null
        /\ heap[frame.id].tokenExpiresAt >= heap[frame.id].createdAt + 61 * MinuteMs

\* C28: when fetchMessages calls for one mailbox overlap while its token is
\* expired or absent, at most one /token request for the mailbox is in flight
\* at a time, and the calls that asked for a token use the same one.
C28_RefreshCoordinated ==
  \A f, g \in Fetchers :
    (f # g /\ reg.fetch[f].pc # "idle" /\ reg.fetch[g].pc # "idle"
       /\ reg.fetch[f].id = reg.fetch[g].id)
      => /\ ~(reg.fetch[f].pc = "auth_wait" /\ reg.fetch[g].pc = "auth_wait")
         /\ (reg.fetch[f].answer.json /\ reg.fetch[g].answer.json)
              => reg.fetch[f].token = reg.fetch[g].token

\* the three token fields of a mailbox object
credentialOf(mailbox) ==
  <<mailbox.token, mailbox.refreshToken, mailbox.tokenExpiresAt>>

\* C29: once a mailbox is created, its token, refreshToken and
\* tokenExpiresAt change only in the step where a POST /token of
\* ensureMailTmToken for that mailbox succeeds: get, extend, the sweep, the
\* listing and the normalisation of the messages leave the three unchanged.
C29_TokenWrittenByRefreshOnly ==
  [][\A id \in MailboxIds :
       (heap[id] # NoMailbox /\ heap'[id] # NoMailbox
          /\ credentialOf(heap'[id]) # credentialOf(heap[id]))
         => \E f \in Fetchers :
              /\ reg.fetch[f].pc = "auth_wait"
              /\ reg.fetch[f].id = id
              /\ reg'.fetch[f].pc = "list_wait"
  ]_vars

\* a mailbox created without a token was given one by a call of
\* fetchMessages, and is extended while that call waits for the details: the
\* object holds the token of the call, and a new expiresAt
C29_Witness ==
  \E f \in Fetchers :
    LET frame == reg.fetch[f]
    IN  /\ frame.pc = "detail_wait"
        /\ frame.answer.json
        /\ reg.last.op = "extend"
        /\ reg.last.status = 200
        /\ reg.last.id = frame.id
        /\ reg.last.at > heap[frame.id].createdAt
        /\ heap[frame.id].expiresAt = addTtl(reg.last.at)
        /\ heap[frame.id].token = frame.token
        /\ heap[frame.id].tokenExpiresAt < reg.last.at + DefaultTokenSeconds * 1000

\* C30: extend on a mailbox of the Map whose expiresAt has passed answers 410
\* (Expired), deletes the mailbox and leaves its expiresAt as it was; no
\* step gives an object whose expiresAt has passed a new expiresAt, and a
\* key enters the Map only as the fresh id of a created mailbox, so that an
\* expired mailbox is not brought back, by extend or otherwise, whether the
\* sweep has removed it or not.
C30_ExpiredNotExtended ==
  [][\A id \in MailboxIds :
       /\ (id \in mailboxes /\ now > heap[id].expiresAt
             /\ reg'.last.op = "extend" /\ reg'.last.id = id
             /\ reg'.last # reg.last)
            => /\ reg'.last.status = 410
               /\ id \notin mailboxes'
               /\ id \in reg'.gone
       /\ (heap[id] # NoMailbox /\ now > heap[id].expiresAt)
            => (heap'[id] = NoMailbox \/ heap'[id].expiresAt = heap[id].expiresAt)
       /\ (id \notin mailboxes /\ id \in mailboxes')
            => (id = reg.issued + 1 /\ reg'.issued = id)
  ]_vars

\* extend has answered 410 for a mailbox the sweep had not removed; a call
\* of fetchMessages still holds the object, whose expiresAt is the old one
C30_Witness ==
  /\ reg.last.op = "extend"
  /\ reg.last.status = 410
  /\ reg.last.found
  /\ reg.last.at > reg.last.expiresBefore
  /\ reg.last.id \notin mailboxes
  /\ heap[reg.last.id] # NoMailbox
  /\ heap[reg.last.id].expiresAt = reg.last.expiresBefore

\* extend is asked for a mailbox the sweep removed: 404, and no mailbox
C30_SweptWitness ==
  /\ reg.last.op = "extend"
  /\ reg.last.status = 404
  /\ reg.last.id <= reg.issued
  /\ reg.last.id \notin reg.gone
  /\ heap[reg.last.id] = NoMailbox

\* every call of the batch has ended, all over one candidate list
BatchEnded ==
  /\ \A p \in Procs : EndedCaseB(p)
  /\ \A p, q \in Procs : obs[p].candidates = obs[q].candidates

\* the length of that list
BatchLength == obs[CHOOSE p \in Procs : TRUE].length

\* C31: once the N calls of a batch in flight together over one candidate
\* list of length L have all ended, the cursor is (initial cursor + N) mod L,
\* in every interleaving.
C31_NoLostAdvance ==
  BatchEnded
    => domainRotationIndex = (fn.input[1] + Cardinality(Procs)) % BatchLength

\* the writes of the cursor by the calls of the batch
BatchAdvances == obs["c1"].advances + obs["c2"].advances

\* no write of the cursor is lost: the cursor is the initial one advanced once
\* per write, and when every call wrote it once that is C31's value
AdvancesNotLost ==
  BatchEnded
    => /\ domainRotationIndex = (fn.input[1] + BatchAdvances) % BatchLength
       /\ (\A p \in Procs : obs[p].advances = 1)
            => domainRotationIndex = (fn.input[1] + Cardinality(Procs)) % BatchLength

\* two calls that started on the same domain while both were in flight have
\* ended, each having written the cursor once
AdvancesNotLostWitness ==
  /\ BatchEnded
  /\ \A p \in Procs : obs[p].advances = 1 /\ obs[p].cursorAt = fn.input[1]
  /\ \A p \in Procs : result[p].kind = "credential"
  /\ BatchLength >= 2

\* two calls, one after the other, have both returned a credential, over one
\* candidate list of two domains or more
PairSucceeded ==
  /\ \A p \in Procs : pc[p] = "done" /\ result[p].kind = "credential"
  /\ obs[First].candidates = obs[Second].candidates
  /\ obs[First].length >= 2

\* C32: of two Case B calls made one after the other over one candidate
\* list of two domains or more, both successful, the second returns a
\* mailbox on another domain than the first, however many domains the first
\* skipped.
C32_NextCallNextDomain ==
  PairSucceeded => result[Second].domain # result[First].domain

\* the second call starts one place after the start of the first when the
\* first wrote the cursor once, so that two calls that each succeed on their
\* first domain, over a list naming no domain twice, return different domains
NextCallNextStart ==
  (PairSucceeded /\ obs[First].advances = 1)
    => /\ call[Second].startIndex
            = (call[First].startIndex + 1) % obs[First].length
       /\ (call[First].domainOffset = 0 /\ call[Second].domainOffset = 0
            /\ NoRepeat(obs[First].candidates))
            => result[Second].domain # result[First].domain

NextCallNextStartWitness ==
  /\ PairSucceeded
  /\ obs[First].advances = 1
  /\ call[First].domainOffset = 0
  /\ call[Second].domainOffset = 0
  /\ obs[First].cursorAt = 2

\* C33: a provisioning call whose account request has succeeded sends no
\* other account request: from where it waits for the token of the account
\* it created, it returns that account's credential or ends, and never
\* goes back to creating an account.
C33_AtMostOneAccount ==
  [][\A p \in Procs :
       /\ pc[p] = "token_wait" => pc'[p] # "create_wait"
       /\ pc[p] = "x_token_wait" => pc'[p] # "x_create_wait"
  ]_vars

\* C34: once a mailbox is out of the registry, removed by the sweep or by
\* ensureMailbox, a call of fetchMessages that was in flight for it neither
\* ends by returning its messages nor changes its record.
C34_EvictedUntouched ==
  [][\A f \in Fetchers :
       LET frame == reg.fetch[f]
       IN  (frame.pc \notin {"idle", "done"} /\ frame.id \notin mailboxes)
             => /\ reg'.fetch[f].pc = "done" => reg'.fetch[f].threw
                /\ heap'[frame.id] \in {heap[frame.id], NoMailbox}
  ]_vars

\* C35: a Case B call that exhausts its trial sequence throws the
\* "rate-limited" message only if it counted at least one domain as
\* rate-limited: when no domain was counted, whatever the length of the
\* trial sequence, the message is the general one.
C35_RateLimitedNeedsOne ==
  \A p \in Procs :
    (pc[p] = "done" /\ obs[p].exhausted)
      => /\ result[p].error.data.detail = RateLimitedMessage
              => call[p].rateLimitedDomains >= 1
         /\ call[p].rateLimitedDomains = 0
              => result[p].error.data.detail = GeneralMessage

\* the same for the trial sequences of three domains or more, where the
\* threshold of the message is at least one
RateLimitedNeedsOneOfThree ==
  \A p \in Procs :
    (pc[p] = "done" /\ obs[p].exhausted /\ call[p].maxDomainsToTry >= 3)
      => /\ result[p].error.data.detail = RateLimitedMessage
              => call[p].rateLimitedDomains >= 1
         /\ call[p].rateLimitedDomains = 0
              => result[p].error.data.detail = GeneralMessage

RateLimitedNeedsOneOfThreeWitness ==
  \E p \in Procs :
    /\ pc[p] = "done"
    /\ obs[p].exhausted
    /\ call[p].maxDomainsToTry = 3
    /\ call[p].rateLimitedDomains = 0
    /\ obs[p].last = "other"

\* C36: no step of a call that names a domain (Case A) changes the cursor,
\* from its start to its return, whether it returns a credential, fails on an
\* unknown domain, is ended by an error or uses up its five attempts; and
\* the domain it uses is the match of the name in the catalog, whatever the
\* cursor is.  The next call without a domain finds the cursor as it was.
C36_ExplicitLeavesCursor ==
  /\ [](\A p \in Single :
          explicit[p].domain # Undefined
            => explicit[p].domain = findMatch(explicit[p].domainStrings,
                                              explicit[p].preferredDomain))
  /\ [][\A p \in Single :
          (explicit[p].preferredDomain # Null \/ explicit'[p].preferredDomain # Null)
            => domainRotationIndex' = domainRotationIndex
     ]_vars

\* after calls without a domain moved the cursor to 2, a call naming
\* zeta.org, the first entry of the catalog, has returned a credential on it
C36_Witness ==
  \E p \in Single :
    /\ pc[p] = "done"
    /\ explicit[p].preferredDomain = "zeta.org"
    /\ result[p].kind = "credential"
    /\ result[p].domain = "zeta.org"
    /\ domainRotationIndex = 2

\* the same cursor after five collisions, and after an unknown domain
C36_FailedWitness ==
  \E p \in Single :
    /\ pc[p] = "done"
    /\ explicit[p].collisions = 5
    /\ domainRotationIndex = 2

C36_UnknownWitness ==
  \E p \in Single :
    /\ pc[p] = "done"
    /\ explicit[p].preferredDomain = "unknown.example"
    /\ result[p].error.status = 422
    /\ domainRotationIndex = 1

====
